---- MODULE Spec2Model ----
(***************************************************************************)
(* A model of the capture pipeline's control plane:                        *)
(*   - the Supervisor (crates/executor/src/actors/supervisor.rs),          *)
(*   - the worker contract and the workers' terminal paths                 *)
(*     (crates/common/src/actors.rs, crates/market_data/src/services,      *)
(*      crates/storage/src/actors/backup_actor.rs),                        *)
(*   - the rotating storage pool (crates/storage/src/db.rs).               *)
(*                                                                         *)
(* Time.  The Supervisor stores Instant::now() per worker and only ever    *)
(* compares a stored instant with Instant::now() - timeout_duration.  The  *)
(* model stores the AGE of each instant (now - instant) in milliseconds,   *)
(* advanced in steps of TimeStep and saturated one step beyond             *)
(* timeout_duration, which keeps the comparison exact on the grid and the  *)
(* state space finite.  TimeStep spans several periods of check_interval   *)
(* (1 s), so a liveness tick is ready at any point of the grid.  The       *)
(* scheduler gives no real-time guarantee, so time may pass between any    *)
(* two steps of any task.                                                  *)
(***************************************************************************)
EXTENDS Integers, Sequences, FiniteSets, TLC

\* ------------------------------------------------------------------ bounds
MaxIds     == 2     \* worker ids (Uuid::new_v4) handed out in one run
MaxChannel == 1     \* control messages in flight (the code's channel holds 512)
MaxWeeks   == 2     \* ISO-week boundaries the wall clock crosses in one run
MaxCallers == 2     \* tasks calling RotatingPool::get_pool concurrently
MaxTickers == 2     \* distinct tickers resolved to symbol ids
MaxEvents  == 5     \* events the gateway publishes on the bus in one run
MaxReceivers == 2   \* receivers subscribed to the bus
capacity   == 3     \* broadcast::channel(capacity) (the code asks for 10_000)
MaxQueue   == 1     \* rows in flight in a writer's db queue (the code: 512..2000)
BatchSize  == 2     \* rows that force a flush (the code: 512..1000)

\* ------------------------------------------------------- program constants
timeout_duration == 3000    \* ms, Supervisor::start

Ids      == 1..MaxIds
TimeStep == timeout_duration
Stale    == timeout_duration + TimeStep

ActorType ==
    {"AggTradeActor", "KlinesActor", "OrderBookActor", "GatewayActor",
     "MarkPriceActor", "ForceOrderActor", "Dynamic"}

\* The kinds main registers a factory for.  main registers the gateway and
\* five writers; the writers share one run/terminal-path shape, so the model
\* instantiates the gateway and one writer.  Dynamic is never registered.
Registrable == {"GatewayActor", "AggTradeActor"}

Writers == {"AggTradeActor", "KlinesActor", "OrderBookActor",
            "MarkPriceActor", "ForceOrderActor"}

\* The writers whose flush_batch loops on the pool handle before it inserts;
\* the others hand the batch to insert_batch, which asks for the handle once.
RetryingWriters == {"AggTradeActor", "KlinesActor", "OrderBookActor"}

\* The writer the pipeline specification follows, and the bus receiver it owns.
WriterId == 1
Receivers == 1..MaxReceivers

VARIABLES
    supervisor,   \* "new" | "running" | "panicked": position of Supervisor::start
    actor_factories, \* Supervisor.actor_factories: the kinds that have a factory
    pulses,       \* Supervisor.pulses:      id -> age of the last pulse
    handles,      \* Supervisor.handles:     id -> the run task it refers to
    actor_types,  \* Supervisor.actor_types: id -> ActorType
    channel,      \* the mpsc control channel: messages in flight, FIFO
    nextId,       \* next fresh worker id
    kindOf,       \* id -> name() of the actor constructed with that id
    run,          \* id -> state of the actor's run task
    hb,           \* id -> state of the actor's heartbeat emitter task
    beat,         \* history: id -> age of the last Heartbeat(id) handled since
                  \* the Supervisor holds a pulse for id (Stale when none)
    archived,     \* id -> the (year, week) of the file name its run passed to
                  \* the archival command (NoFile when none)
    clock,        \* Utc::now(), in ISO weeks since the week the run began in
    inner,        \* RotatingPool.inner: the (packed key, pool) pair
    readers,      \* callers holding a read guard of inner
    writer,       \* the caller holding the write guard of inner, or 0
    pc,           \* caller -> its position in get_pool
    seenKey,      \* caller -> the stored key it read under its guard
    newPool,      \* caller -> new_pool, the pool it opened
    ret,          \* caller -> what its get_pool returned
    poolCount,    \* pools opened so far (the identity of the next one)
    startSerial,  \* history: caller -> the pool inner held when its call began
    retiring,     \* history: the key the latest rotation replaced
    retired,      \* history: id -> the key replaced by the rotation that
                  \* requested the archival worker id
    closed,       \* pools whose last handle was dropped
    wrote,        \* caller -> the outcome of the commit on its handle (stale:
                  \* history, the pool had been replaced when it committed)
    cache,        \* SymbolManager.cache: ticker -> id (0 when absent)
    symbols,      \* partition file -> its symbols table: ticker -> id (0 when
                  \* no row)
    wlock,        \* partition file -> the caller whose transaction holds the
                  \* database's write lock, or 0
    sym,          \* caller -> its position in get_or_create_id, the ticker, the
                  \* id and the table its transaction read
    sent,         \* events sent on market_tx so far (event n is the n-th)
    bus_open,     \* a Sender of the bus is alive (FALSE: the bus is closed)
    cursor,       \* receiver -> the next event its recv() looks for
    missed,       \* history: receiver -> the events it lagged past
    inHand,       \* the event run() took off the bus and is sending to the
                  \* db queue, or 0
    db_rx,        \* the writer's mpsc db queue: rows in flight, FIFO
    buffer,       \* db_writer's buffer
    wpc,          \* db_writer's position
    closing,      \* db_writer is in the flush of its None branch
    tx,           \* rows inserted in the open transaction of insert_batch
    persisted,    \* rows committed to the database
    failedRows,   \* history: rows of the batches whose flush failed
    unclosed,     \* the Kline events run received with closed = false
    handling,     \* the row db_writer received and is flushing for, or 0
    conn,         \* the gateway's position in websocket_connection
    frame,        \* the frame websocket_connection last had to report ("none"
                  \* before any)
    now,          \* Utc::now() as a calendar date: days since EpochDate
    weeks,        \* the (year, week) pairs computed from `now`: cur by
                  \* get_date_components, prev by
                  \* get_previous_iso_week_components (NoFile when not computed)
    poller,       \* the open-interest driver: its position in oi_connection,
                  \* fetch_all_open_interest and fetch_single_open_interest,
                  \* and their locals
    batch         \* insert_batch of a repository that resolves symbol ids:
                  \* its position, the pool its transaction is open on and
                  \* the rows the transaction has written

calVars == <<now, weeks>>

oiVars == <<poller>>

batchVars == <<batch>>

gwVars == <<conn, frame>>

pipeVars == <<sent, bus_open, cursor, missed, inHand, db_rx, buffer, wpc, closing, tx,
              persisted, failedRows, unclosed, handling>>

symVars == <<cache, symbols, wlock, sym>>

poolVars == <<clock, inner, readers, writer, pc, seenKey, newPool, ret,
              poolCount, startSerial, retiring, retired, closed, wrote, symVars>>

vars == <<supervisor, actor_factories, pulses, handles, actor_types, channel, nextId,
          kindOf, run, hb, beat, archived, poolVars, pipeVars, gwVars, calVars, oiVars, batchVars>>

supVars    == <<supervisor, actor_factories, pulses, handles, actor_types>>
workerVars == <<kindOf, run, hb, archived>>

\* ----------------------------------------------------------- map helpers
Insert(map, id, v) ==
    [i \in DOMAIN map \cup {id} |-> IF i = id THEN v ELSE map[i]]

Remove(map, ids) ==
    [i \in DOMAIN map \ ids |-> map[i]]

Msg(t, id) == [type |-> t, id |-> id]

Older(age) == IF age + TimeStep >= Stale THEN Stale ELSE age + TimeStep

\* JoinHandle::abort: cancels a task that has not finished; no effect on a
\* finished one.
Abort(state) == IF state \in {"running", "reporting"} THEN "cancelled" ELSE state

AbortAll(ids) == [i \in Ids |-> IF i \in ids THEN Abort(run[i]) ELSE run[i]]

\* Dropping the JoinHandle of a task that was aborted: the runtime frees the
\* task and the actor it owns; the emitter it spawned is a task of its own.
Freed(state, ids) == [i \in Ids |-> IF i \in ids THEN "none" ELSE state[i]]

NoFile == <<0, 0>>

\* ... and with the task the arguments its run had built.
FreedArgs(ids) == [i \in Ids |-> IF i \in ids THEN NoFile ELSE archived[i]]

\* ------------------------------------------------------------------- Init
\* Supervisor::new
SupervisorNew ==
    /\ supervisor = "new"
    /\ actor_factories = {}
    /\ pulses = <<>>
    /\ handles = <<>>
    /\ actor_types = <<>>
    /\ channel = <<>>
    /\ nextId = 1
    /\ kindOf = [i \in Ids |-> "none"]
    /\ run = [i \in Ids |-> "none"]
    /\ hb = [i \in Ids |-> "none"]
    /\ beat = [i \in Ids |-> Stale]
    /\ archived = [i \in Ids |-> NoFile]

\* --------------------------------------------------------- ISO-week clock
Callers == 1..MaxCallers

\* get_date_components(Utc::now()) when the clock reads t: the run begins in
\* 2025-W52, the last week of a 52-week ISO year; the next week is 2026-W01.
get_date_components(t) == IF t <= 0 THEN <<2025, 52 + t>> ELSE <<2026, t>>

\* get_previous_iso_week_components: get_date_components(date - Duration::weeks(1))
get_previous_iso_week_components(t) == get_date_components(t - 1)

\* (year as u32) << 6 | (week & 0x3f)
Packed(yw) == yw[1] * 64 + (yw[2] % 64)

\* RotatingPool::current_packed when the clock reads t
current_packed(t) == Packed(get_date_components(t))

NoPool == [id |-> 0, file |-> NoFile]
NoRet  == [ok |-> FALSE, pool |-> NoPool, rotated |-> FALSE]
Tickers == 1..MaxTickers

\* The partition files of the weeks of a run.
Files == {get_date_components(t) : t \in 0..MaxWeeks}

NoRows == [t \in Tickers |-> 0]
NoSym  == [ph |-> "none", ticker |-> 0, id |-> 0, snap |-> NoRows]
NoWrite == [done |-> FALSE, ok |-> FALSE, file |-> NoFile, stale |-> FALSE]

\* RotatingPool::new: get_weekly_pool reads the clock (t0), then
\* current_packed reads it again (t1).
RotatingPoolNew(t0, t1) ==
    /\ clock = t1
    /\ inner = [key |-> current_packed(t1),
                pool |-> [id |-> 1, file |-> get_date_components(t0)]]
    /\ readers = {}
    /\ writer = 0
    /\ pc = [c \in Callers |-> "idle"]
    /\ seenKey = [c \in Callers |-> 0]
    /\ newPool = [c \in Callers |-> NoPool]
    /\ ret = [c \in Callers |-> NoRet]
    /\ poolCount = 1
    /\ startSerial = [c \in Callers |-> 0]
    /\ retiring = 0
    /\ retired = [i \in Ids |-> 0]
    /\ closed = {}
    /\ wrote = [c \in Callers |-> NoWrite]
    /\ cache = NoRows
    /\ symbols = [f \in Files |-> NoRows]
    /\ wlock = [f \in Files |-> 0]
    /\ sym = [c \in Callers |-> NoSym]

\* main up to supervisor.start(): the pool is constructed, then the
\* Supervisor.
\* The broadcast bus right after broadcast::channel, a receiver right after
\* subscribe, and a writer's run / db_writer pair before run is polled.
PipelineNew ==
    /\ sent = 0
    /\ bus_open = TRUE
    /\ cursor = [r \in Receivers |-> 1]
    /\ missed = [r \in Receivers |-> {}]
    /\ inHand = 0
    /\ db_rx = <<>>
    /\ buffer = <<>>
    /\ wpc = "select"
    /\ closing = FALSE
    /\ tx = <<>>
    /\ persisted = {}
    /\ failedRows = {}
    /\ unclosed = {}
    /\ handling = 0

\* No gateway has been constructed.
NoGateway == conn = "none" /\ frame = "none"

\* No date component has been computed.
NoDate == now = 0 /\ weeks = [cur |-> NoFile, prev |-> NoFile]

\* BinancePoller::new, before oi_connection called fetch_all_open_interest.
\*   pc: "idle" (between passes) | "delay" (sleep(request_delay_ms)) |
\*       "request" (make_request in flight) | "backoff" (sleep(backoff_seconds))
\*   i: the symbol being fetched (0 when idle); results: the pass's results
\*   history: last (the latest response), slept (the back-offs slept for the
\*   current symbol), paused (a sleep ended since the last response),
\*   passes (passes ended so far)
PollerNew ==
    [pc |-> "idle", i |-> 0, retry_count |-> 0, backoff_seconds |-> 0,
     results |-> <<>>, last |-> "none", slept |-> <<>>, paused |-> FALSE,
     passes |-> 0]

NoPoller == poller = PollerNew

\* No insert_batch is under way.
NoBatch == batch = [ph |-> "none", pool |-> NoPool, rows |-> <<>>]

Init == SupervisorNew /\ RotatingPoolNew(0, 0) /\ PipelineNew /\ NoGateway /\ NoDate /\ NoPoller /\ NoBatch

\* ------------------------------------------------------------ Supervisor
\* Supervisor::spawn_actor, for a batch of fresh actors `new` (id -> kind):
\* the three inserts, v being the inserted value per id.
Spawned(map, new, v) ==
    [i \in DOMAIN map \cup DOMAIN new |-> IF i \in DOMAIN new THEN v[i] ELSE map[i]]

\* tokio::spawn of the run task of each actor of `new`; run starts by spawning
\* the heartbeat emitter (first statement of every run).
Started(state, new) ==
    [i \in Ids |-> IF i \in DOMAIN new THEN "running" ELSE state[i]]

\* The order in which start() walks actor_factories (a HashMap: any order;
\* ids are opaque, so one order is modelled).
StartOrder ==
    CHOOSE f \in [nextId..(nextId + Cardinality(actor_factories) - 1) -> actor_factories] :
        \A k \in actor_factories : \E i \in DOMAIN f : f[i] = k

\* Supervisor::register_actor, called before start.
register_actor(kind) ==
    /\ supervisor = "new"
    /\ kind \notin actor_factories
    /\ actor_factories' = actor_factories \cup {kind}
    /\ UNCHANGED <<archived, supervisor, pulses, handles, actor_types, channel, nextId,
                   workerVars, beat>>

\* Supervisor::start up to the loop: one spawn_actor per registered kind.
Start ==
    /\ supervisor = "new"
    /\ nextId + Cardinality(actor_factories) <= MaxIds + 1
    /\ LET new == StartOrder IN
        /\ actor_types' = Spawned(actor_types, new, new)
        /\ handles' = Spawned(handles, new, [i \in DOMAIN new |-> i])
        /\ pulses' = Spawned(pulses, new, [i \in DOMAIN new |-> 0])
        /\ kindOf' = [i \in Ids |-> IF i \in DOMAIN new THEN new[i] ELSE kindOf[i]]
        /\ run' = Started(run, new)
        /\ hb' = Started(hb, new)
        /\ nextId' = nextId + Cardinality(DOMAIN new)
    /\ supervisor' = "running"
    /\ UNCHANGED <<archived, actor_factories, channel, beat>>

\* ControlMessage::Spawn(actor)
HandleSpawn(id) ==
    /\ handles' = Insert(handles, id, id)
    /\ actor_types' = Insert(actor_types, id, "Dynamic")
    /\ pulses' = Insert(pulses, id, 0)
    /\ run' = [run EXCEPT ![id] = "running"]
    /\ hb' = [hb EXCEPT ![id] = "running"]
    /\ UNCHANGED <<archived, beat, kindOf, nextId>>

\* A Heartbeat handler that records nothing.
HandleHeartbeatIgnored(id) ==
    /\ beat' = [beat EXCEPT ![id] = 0]
    /\ UNCHANGED <<archived, pulses, handles, actor_types, run, hb, kindOf, nextId>>

\* ControlMessage::Heartbeat(id)
HandleHeartbeat(id) ==
    /\ pulses' = Insert(pulses, id, 0)
    /\ beat' = [beat EXCEPT ![id] = 0]
    /\ UNCHANGED <<archived, handles, actor_types, run, hb, kindOf, nextId>>

\* ControlMessage::Shutdown(id)
HandleShutdown(id) ==
    /\ pulses' = Remove(pulses, {id})
    /\ actor_types' = Remove(actor_types, {id})
    /\ handles' = Remove(handles, {id})
    /\ run' = Freed(run, {id} \cap DOMAIN handles)
    /\ kindOf' = Freed(kindOf, {id} \cap DOMAIN handles)
    /\ beat' = [beat EXCEPT ![id] = Stale]
    /\ archived' = FreedArgs({id} \cap DOMAIN handles)
    /\ UNCHANGED <<hb, nextId>>

\* An Error handler that treats the report as a failure and cancels the task.
HandleErrorAborting(id) ==
    /\ pulses' = Insert(pulses, id, 0)
    /\ run' = AbortAll({id} \cap DOMAIN handles)
    /\ UNCHANGED <<archived, beat, handles, actor_types, hb, kindOf, nextId>>

\* ControlMessage::Error(id, _)
HandleError(id) ==
    /\ pulses' = Insert(pulses, id, 0)
    /\ UNCHANGED <<archived, beat, handles, actor_types, run, hb, kindOf, nextId>>

\* The recv branch of the select!, one action per match arm.
Recv(type) ==
    /\ supervisor = "running"
    /\ channel # <<>>
    /\ Head(channel).type = type
    /\ channel' = Tail(channel)
    /\ UNCHANGED <<supervisor, actor_factories>>

RecvSpawn     == Recv("Spawn")     /\ HandleSpawn(Head(channel).id)
RecvHeartbeat == Recv("Heartbeat") /\ HandleHeartbeat(Head(channel).id)
RecvShutdown  == Recv("Shutdown")  /\ HandleShutdown(Head(channel).id)
RecvError     == Recv("Error")     /\ HandleError(Head(channel).id)

\* value < dead_timeout, with dead_timeout = now - timeout_duration
IsDead(age) == age > timeout_duration

dead_actors == {id \in DOMAIN pulses : IsDead(pulses[id])}

\* A reaping that forgets the removes.
KeepState(map, ids) == map

\* pulses.remove / handles.remove / actor_types.remove of the ids handled
DropState(map, ids) == Remove(map, ids)

\* the ids of `done` whose kind has a factory
Restarted(done) == {id \in done : actor_types[id] \in actor_factories}

\* the fresh id of the instance that replaces `old`
NewId(restart, old) == nextId + Cardinality({x \in restart : x < old})

\* The tick branch of the select!.  First loop: every dead id is collected
\* and its handle, if any, aborted.  Second loop: dead_actors is walked in
\* the order pulses.iter() gave (a HashMap: any order); actor_types[&id]
\* panics on an id that has no kind, so the ids handled are all the dead ones
\* when each has a kind, and otherwise those met before the first that has
\* none (`done`), after which start() unwinds.
Tick ==
    /\ supervisor = "running"
    /\ LET orphans == dead_actors \ DOMAIN actor_types IN
       \E done \in SUBSET (dead_actors \ orphans) :
         LET restart == Restarted(done)
             new == [n \in {NewId(restart, o) : o \in restart} |->
                        actor_types[CHOOSE o \in restart : NewId(restart, o) = n]]
         IN
            /\ orphans = {} => done = dead_actors
            /\ nextId + Cardinality(restart) <= MaxIds + 1
            /\ supervisor' = IF orphans = {} THEN "running" ELSE "panicked"
            /\ actor_types' = Spawned(DropState(actor_types, done), new, new)
            /\ handles' = Spawned(DropState(handles, done), new, [i \in DOMAIN new |-> i])
            /\ pulses' = Spawned(DropState(pulses, done), new, [i \in DOMAIN new |-> 0])
            /\ kindOf' = [i \in Ids |-> IF i \in DOMAIN new THEN new[i]
                                       ELSE Freed(kindOf, done)[i]]
            /\ run' = Started(Freed(AbortAll(dead_actors \cap DOMAIN handles), done), new)
            /\ hb' = Started(hb, new)
            /\ archived' = FreedArgs(done)
            /\ nextId' = nextId + Cardinality(restart)
    /\ beat' = [i \in Ids |-> IF i \in DOMAIN pulses' THEN beat[i] ELSE Stale]
    /\ UNCHANGED <<actor_factories, channel>>

\* TimeStep of time passes.
Advance ==
    /\ supervisor = "running"
    /\ pulses' = [i \in DOMAIN pulses |-> Older(pulses[i])]
    /\ beat' = [i \in Ids |-> Older(beat[i])]
    /\ UNCHANGED <<archived, supervisor, actor_factories, handles, actor_types, channel,
                   nextId, workerVars>>

\* --------------------------------------------------------------- workers
Alive == supervisor = "running"

\* mpsc::Sender::send(..).await: the message is queued once there is room.
Send(m) ==
    /\ Len(channel) < MaxChannel
    /\ channel' = Append(channel, m)

\* Actor::spawn_heartbeat: one round of the emitter's loop.
EmitHeartbeat(id) ==
    /\ Alive
    /\ hb[id] = "running"
    /\ Send(Msg("Heartbeat", id))
    /\ UNCHANGED <<supVars, nextId, workerVars, beat>>

\* MarketGateway::websocket_connection: a failed connect, an undecodable or
\* an unexpected frame: Error(self.id, ..) is sent and the driver goes on.
GatewayReportsError(id) ==
    /\ Alive
    /\ kindOf[id] = "GatewayActor"
    /\ run[id] = "running"
    /\ Send(Msg("Error", id))
    /\ UNCHANGED <<supVars, nextId, workerVars, beat>>

\* MarketGateway::run: one of the three drivers of the select! completes;
\* the emitter is aborted and run returns Ok(()).
GatewayDriverEnds(id) ==
    /\ Alive
    /\ kindOf[id] = "GatewayActor"
    /\ run[id] = "running"
    /\ hb' = [hb EXCEPT ![id] = "aborted"]
    /\ run' = [run EXCEPT ![id] = "ok"]
    /\ UNCHANGED <<archived, supVars, channel, nextId, kindOf, beat>>

\* A writer's run meets a closed queue or a closed bus: heartbeat_handle.abort(),
\* then the Error is awaited into the control channel.
WriterFails(id) ==
    /\ Alive
    /\ kindOf[id] \in Writers
    /\ run[id] = "running"
    /\ hb' = [hb EXCEPT ![id] = "aborted"]
    /\ run' = [run EXCEPT ![id] = "reporting"]
    /\ UNCHANGED <<archived, supVars, channel, nextId, kindOf, beat>>

\* ... the Error is queued and run bails.
WriterReports(id) ==
    /\ Alive
    /\ kindOf[id] \in Writers
    /\ run[id] = "reporting"
    /\ Send(Msg("Error", id))
    /\ run' = [run EXCEPT ![id] = "err"]
    /\ UNCHANGED <<archived, supVars, nextId, kindOf, hb, beat>>

\* BackupOneShotActor::run, the command exits 0: Shutdown(self.id) is sent
\* (the send succeeds, so the emitter is not aborted) and run returns Ok(()).
BackupSucceeds(id) ==
    /\ Alive
    /\ kindOf[id] = "Dynamic"
    /\ run[id] = "running"
    /\ Send(Msg("Shutdown", id))
    /\ run' = [run EXCEPT ![id] = "ok"]
    /\ archived' = [archived EXCEPT ![id] = get_previous_iso_week_components(clock)]
    /\ UNCHANGED <<supVars, nextId, kindOf, hb, beat>>

\* ... the command exits non-zero: the emitter is aborted, run bails.
BackupScriptFails(id) ==
    /\ Alive
    /\ kindOf[id] = "Dynamic"
    /\ run[id] = "running"
    /\ hb' = [hb EXCEPT ![id] = "aborted"]
    /\ run' = [run EXCEPT ![id] = "err"]
    /\ archived' = [archived EXCEPT ![id] = get_previous_iso_week_components(clock)]
    /\ UNCHANGED <<supVars, channel, nextId, kindOf, beat>>

\* ... the command could not be executed: run bails, nothing else.
BackupExecFails(id) ==
    /\ Alive
    /\ kindOf[id] = "Dynamic"
    /\ run[id] = "running"
    /\ run' = [run EXCEPT ![id] = "err"]
    /\ archived' = [archived EXCEPT ![id] = get_previous_iso_week_components(clock)]
    /\ UNCHANGED <<supVars, channel, nextId, kindOf, hb, beat>>

\* ... env::var("UTILS").expect(..) panics, after spawn_heartbeat.
BackupPanics(id) ==
    /\ Alive
    /\ kindOf[id] = "Dynamic"
    /\ run[id] = "running"
    /\ run' = [run EXCEPT ![id] = "panic"]
    /\ UNCHANGED <<archived, supVars, channel, nextId, kindOf, hb, beat>>

\* RotatingPool::get_pool on a rotation: a BackupOneShotActor is constructed
\* and handed to the Supervisor with try_send, which fails on a full channel.
TrySendSpawn ==
    /\ nextId <= MaxIds
    /\ IF Len(channel) < MaxChannel
       THEN /\ channel' = Append(channel, Msg("Spawn", nextId))
            /\ kindOf' = [kindOf EXCEPT ![nextId] = "Dynamic"]
            /\ nextId' = nextId + 1
       ELSE UNCHANGED <<channel, kindOf, nextId>>

\* A rotation, seen from the control plane.
RotationRequestsBackup ==
    /\ Alive
    /\ Len(channel) < MaxChannel
    /\ TrySendSpawn
    /\ UNCHANGED <<archived, supVars, run, hb, beat>>

\* ---------------------------------------------------------- RotatingPool
\* What a get_pool call leaves alone in the control plane.
restVars == <<supVars, run, hb, beat, archived, pipeVars, gwVars, calVars, oiVars, batchVars>>

\* tokio::sync::RwLock: read guards are shared, the write guard is exclusive.
CanRead == writer = 0
CanWriteIgnoringReaders == writer = 0
CanWrite == writer = 0 /\ readers = {}

\* The callers holding a clone of a pool returned to them.
Holders == {c \in Callers : pc[c] = "done" /\ ret[c].ok}

HeldByNobody(cs) == {}

\* The pool an insert_batch under way holds its handle of.
BatchHeld == IF batch.ph \in {"resolve", "commit"} THEN {batch.pool.id} ELSE {}

\* The pools some caller in cs, or the batch, holds a handle of.
HeldBy(cs) == {ret[c].pool.id : c \in cs} \cup BatchHeld

\* SqlitePool is reference counted: dropping a handle of pool p closes the
\* pool only if none of the handles in held is one of p.
Dropped(p, held) == IF p \in held THEN closed ELSE closed \cup {p}

\* Utc::now() crosses an ISO-week boundary.
ClockAdvance ==
    /\ clock < MaxWeeks
    /\ clock' = clock + 1
    /\ UNCHANGED <<inner, readers, writer, pc, seenKey, newPool, ret, poolCount,
                   startSerial, restVars, symVars, closed, wrote, retiring, retired, channel, nextId, kindOf>>

\* A task calls get_pool (RotatingPool::get).
Call(c) ==
    /\ pc[c] = "idle"
    /\ pc' = [pc EXCEPT ![c] = "read_wait"]
    /\ startSerial' = [startSerial EXCEPT ![c] = inner.pool.id]
    /\ seenKey' = [seenKey EXCEPT ![c] = 0]
    /\ newPool' = [newPool EXCEPT ![c] = NoPool]
    /\ ret' = [ret EXCEPT ![c] = NoRet]
    /\ wrote' = [wrote EXCEPT ![c] = NoWrite]
    /\ sym' = [sym EXCEPT ![c] = NoSym]
    /\ UNCHANGED <<clock, inner, readers, writer, poolCount, restVars, cache, symbols, wlock, closed, retiring, retired, channel, nextId, kindOf>>

\* let read = self.inner.read().await
ReadLock(c) ==
    /\ pc[c] = "read_wait"
    /\ CanRead
    /\ readers' = readers \cup {c}
    /\ pc' = [pc EXCEPT ![c] = "read_key"]
    /\ UNCHANGED <<clock, inner, writer, seenKey, newPool, ret, poolCount,
                   startSerial, restVars, symVars, closed, wrote, retiring, retired, channel, nextId, kindOf>>

\* let (current_packed, ref pool) = *read;
\* if current_packed == Self::current_packed() { fast path } else drop(read)
ReadKey(c) ==
    /\ pc[c] = "read_key"
    /\ seenKey' = [seenKey EXCEPT ![c] = inner.key]
    /\ IF inner.key = current_packed(clock)
       THEN /\ pc' = [pc EXCEPT ![c] = "read_clone"]
            /\ UNCHANGED readers
       ELSE /\ pc' = [pc EXCEPT ![c] = "write_wait"]
            /\ readers' = readers \ {c}
    /\ UNCHANGED <<clock, inner, writer, newPool, ret, poolCount, startSerial, restVars, symVars, closed, wrote, retiring, retired, channel, nextId, kindOf>>

\* return Ok((pool.clone(), false)), which drops the read guard
ReadClone(c) ==
    /\ pc[c] = "read_clone"
    /\ ret' = [ret EXCEPT ![c] = [ok |-> TRUE, pool |-> inner.pool, rotated |-> FALSE]]
    /\ readers' = readers \ {c}
    /\ pc' = [pc EXCEPT ![c] = "done"]
    /\ UNCHANGED <<clock, inner, writer, seenKey, newPool, poolCount, startSerial, restVars, symVars, closed, wrote, retiring, retired, channel, nextId, kindOf>>

\* let mut write = self.inner.write().await
WriteLock(c) ==
    /\ pc[c] = "write_wait"
    /\ CanWrite
    /\ writer' = c
    /\ pc' = [pc EXCEPT ![c] = "write_check"]
    /\ UNCHANGED <<clock, inner, readers, seenKey, newPool, ret, poolCount,
                   startSerial, restVars, symVars, closed, wrote, retiring, retired, channel, nextId, kindOf>>

\* A slow path that rotates without looking at the key again.
RotateUnchecked == TRUE

\* current_packed != Self::current_packed(), under the write guard
KeyStillStale == inner.key # current_packed(clock)

\* if write.0 != Self::current_packed() { rotate }
WriteCheck(c) ==
    /\ pc[c] = "write_check"
    /\ seenKey' = [seenKey EXCEPT ![c] = inner.key]
    /\ pc' = [pc EXCEPT ![c] = IF KeyStillStale THEN "open" ELSE "write_ret"]
    /\ UNCHANGED <<clock, inner, readers, writer, newPool, ret, poolCount,
                   startSerial, restVars, symVars, closed, wrote, retiring, retired, channel, nextId, kindOf>>

\* let new_pool = get_weekly_pool().await?  -- opened on the file of the week
\* the clock reads now
get_weekly_pool(c) ==
    /\ pc[c] = "open"
    /\ poolCount' = poolCount + 1
    /\ newPool' = [newPool EXCEPT ![c] =
                      [id |-> poolCount + 1, file |-> get_date_components(clock)]]
    /\ pc' = [pc EXCEPT ![c] = "install"]
    /\ UNCHANGED <<clock, inner, readers, writer, seenKey, ret, startSerial, restVars, symVars, closed, wrote, retiring, retired, channel, nextId, kindOf>>

\* A rotation that stored the new key before the pool was constructed.
KeyStoredFirst == [inner EXCEPT !.key = current_packed(clock)]

\* `get_weekly_pool(..).await?` returns before `*write = ..` is reached: the
\* stored pair is the one the write guard found.
StoredAfterFailure == inner

\* get_weekly_pool fails: `?` returns the error and drops the write guard
get_weekly_pool_fails(c) ==
    /\ pc[c] = "open"
    /\ ret' = [ret EXCEPT ![c] = NoRet]
    /\ inner' = StoredAfterFailure
    /\ writer' = 0
    /\ pc' = [pc EXCEPT ![c] = "done"]
    /\ UNCHANGED <<clock, readers, seenKey, newPool, poolCount, startSerial, restVars, symVars, closed, wrote, retiring, retired, channel, nextId, kindOf>>

\* *write = (Self::current_packed(), new_pool)
Install(c) ==
    /\ pc[c] = "install"
    /\ inner' = [key |-> current_packed(clock), pool |-> newPool[c]]
    /\ seenKey' = [seenKey EXCEPT ![c] = current_packed(clock)]
    /\ retiring' = inner.key
    /\ closed' = Dropped(inner.pool.id, HeldBy(Holders))
    /\ pc' = [pc EXCEPT ![c] = "spawn"]
    /\ UNCHANGED <<clock, readers, writer, newPool, ret, poolCount,
                   startSerial, restVars, symVars, wrote, retired, channel, nextId, kindOf>>

\* self.supervisor_tx.try_send(ControlMessage::Spawn(backup_actor))
RequestBackup(c) ==
    /\ pc[c] = "spawn"
    /\ TrySendSpawn
    /\ retired' = IF nextId' # nextId THEN [retired EXCEPT ![nextId] = retiring]
                  ELSE retired
    /\ pc' = [pc EXCEPT ![c] = "write_ret"]
    /\ UNCHANGED <<clock, inner, readers, writer, seenKey, newPool, ret,
                   poolCount, startSerial, restVars, symVars, closed, wrote, retiring>>

\* Ok((write.1.clone(), true)), which drops the write guard
WriteReturn(c) ==
    /\ pc[c] = "write_ret"
    /\ ret' = [ret EXCEPT ![c] = [ok |-> TRUE, pool |-> inner.pool, rotated |-> TRUE]]
    /\ writer' = 0
    /\ pc' = [pc EXCEPT ![c] = "done"]
    /\ UNCHANGED <<clock, inner, readers, seenKey, newPool, poolCount, startSerial, restVars, symVars, closed, wrote, retiring, retired, channel, nextId, kindOf>>

\* insert_batch on the handle the call returned: pool.begin(), the inserts
\* and tx.commit() go to the file of that pool, or fail on a closed pool.
Commit(c) ==
    /\ pc[c] = "done"
    /\ ret[c].ok
    /\ ~wrote[c].done
    /\ wrote' = [wrote EXCEPT ![c] =
                    IF ret[c].pool.id \in closed
                    THEN [done |-> TRUE, ok |-> FALSE, file |-> NoFile,
                          stale |-> ret[c].pool # inner.pool]
                    ELSE [done |-> TRUE, ok |-> TRUE, file |-> ret[c].pool.file,
                          stale |-> ret[c].pool # inner.pool]]
    /\ UNCHANGED <<clock, inner, readers, writer, pc, seenKey, newPool, ret,
                   poolCount, startSerial, restVars, symVars, retiring, retired, closed,
                   channel, nextId, kindOf>>

\* The caller is done with what it got: its handle and the locals of its call
\* go out of scope, and it may call again.
Return(c) ==
    /\ pc[c] = "done"
    /\ sym[c].ph \in {"none", "got", "failed"}
    /\ pc' = [pc EXCEPT ![c] = "idle"]
    /\ closed' = IF ret[c].ok
                 THEN Dropped(ret[c].pool.id,
                              HeldBy(Holders \ {c}) \cup {inner.pool.id})
                 ELSE closed
    /\ seenKey' = [seenKey EXCEPT ![c] = 0]
    /\ newPool' = [newPool EXCEPT ![c] = NoPool]
    /\ ret' = [ret EXCEPT ![c] = NoRet]
    /\ wrote' = [wrote EXCEPT ![c] = NoWrite]
    /\ sym' = [sym EXCEPT ![c] = NoSym]
    /\ UNCHANGED <<clock, inner, readers, writer, poolCount, startSerial, restVars,
                   cache, symbols, wlock, retiring, retired, channel, nextId, kindOf>>

\* --------------------------------------------------------- SymbolManager
\* DataManager::get_symbol_id: get_pool (Call .. WriteReturn above), then
\* SymbolManager::get_or_create_id on the pool it returned.
symFile(c) == ret[c].pool.file

\* { cache.lock(); if let Some(&id) = cache.get(symbol) { return Ok(id) } }
CacheLookup(c, t) ==
    /\ pc[c] = "done"
    /\ ret[c].ok
    /\ sym[c].ph = "none"
    /\ sym' = [sym EXCEPT ![c] =
                  IF cache[t] # 0
                  THEN [ph |-> "got", ticker |-> t, id |-> cache[t], snap |-> NoRows]
                  ELSE [ph |-> "select", ticker |-> t, id |-> 0, snap |-> NoRows]]
    /\ UNCHANGED <<clock, inner, readers, writer, pc, seenKey, newPool, ret,
                   poolCount, startSerial, retiring, retired, closed, wrote,
                   cache, symbols, wlock, restVars, channel, nextId, kindOf>>

\* pool.begin(), then SELECT id FROM symbols WHERE ticker = ?: the read
\* transaction sees the table as it is committed now.
SelectId(c) ==
    /\ sym[c].ph = "select"
    /\ LET found == symbols[symFile(c)][sym[c].ticker] IN
       sym' = [sym EXCEPT ![c].ph = IF found # 0 THEN "commit" ELSE "insert",
                          ![c].id = found,
                          ![c].snap = symbols[symFile(c)]]
    /\ UNCHANGED <<clock, inner, readers, writer, pc, seenKey, newPool, ret,
                   poolCount, startSerial, retiring, retired, closed, wrote,
                   cache, symbols, wlock, restVars, channel, nextId, kindOf>>

\* AUTOINCREMENT: the id the next row of the table gets.
NextRowId(rows) == Cardinality({t \in Tickers : rows[t] # 0}) + 1

\* INSERT INTO symbols(ticker) VALUES (?) RETURNING id, with the write lock
\* free: the transaction takes it if the table is still the one it read;
\* if another transaction committed in between, the statement fails
\* (SQLITE_BUSY_SNAPSHOT) and `?` returns the error.
InsertId(c) ==
    /\ sym[c].ph = "insert"
    /\ wlock[symFile(c)] = 0
    /\ IF symbols[symFile(c)] = sym[c].snap
       THEN /\ wlock' = [wlock EXCEPT ![symFile(c)] = c]
            /\ sym' = [sym EXCEPT ![c].ph = "commit",
                                  ![c].id = NextRowId(symbols[symFile(c)])]
       ELSE /\ sym' = [sym EXCEPT ![c].ph = "failed"]
            /\ UNCHANGED wlock
    /\ UNCHANGED <<clock, inner, readers, writer, pc, seenKey, newPool, ret,
                   poolCount, startSerial, retiring, retired, closed, wrote,
                   cache, symbols, restVars, channel, nextId, kindOf>>

\* ... with the write lock held by another transaction for the whole
\* busy_timeout: the statement fails (SQLITE_BUSY) and `?` returns the error.
InsertBusy(c) ==
    /\ sym[c].ph = "insert"
    /\ wlock[symFile(c)] \notin {0, c}
    /\ sym' = [sym EXCEPT ![c].ph = "failed"]
    /\ UNCHANGED <<clock, inner, readers, writer, pc, seenKey, newPool, ret,
                   poolCount, startSerial, retiring, retired, closed, wrote,
                   cache, symbols, wlock, restVars, channel, nextId, kindOf>>

\* tx.commit(): the inserted row, if any, becomes visible.
CommitTx(c) ==
    /\ sym[c].ph = "commit"
    /\ IF wlock[symFile(c)] = c
       THEN /\ symbols' = [symbols EXCEPT ![symFile(c)][sym[c].ticker] = sym[c].id]
            /\ wlock' = [wlock EXCEPT ![symFile(c)] = 0]
       ELSE UNCHANGED <<symbols, wlock>>
    /\ sym' = [sym EXCEPT ![c].ph = "cache"]
    /\ UNCHANGED <<clock, inner, readers, writer, pc, seenKey, newPool, ret,
                   poolCount, startSerial, retiring, retired, closed, wrote,
                   cache, restVars, channel, nextId, kindOf>>

\* cache.insert(symbol.to_string(), id); Ok(id)
CacheInsert(c) ==
    /\ sym[c].ph = "cache"
    /\ cache' = [cache EXCEPT ![sym[c].ticker] = sym[c].id]
    /\ sym' = [sym EXCEPT ![c].ph = "got"]
    /\ UNCHANGED <<clock, inner, readers, writer, pc, seenKey, newPool, ret,
                   poolCount, startSerial, retiring, retired, closed, wrote,
                   symbols, wlock, restVars, channel, nextId, kindOf>>

\* The pool as constructed by RotatingPool::new, whose two clock reads may
\* fall on either side of a week boundary.
InitPool == SupervisorNew /\ PipelineNew /\ NoGateway /\ NoDate /\ NoPoller /\ NoBatch /\ \E t \in {0, 1} : RotatingPoolNew(0, t)

NextPool ==
    \/ ClockAdvance
    \/ \E c \in Callers : Call(c)
    \/ \E c \in Callers : ReadLock(c)
    \/ \E c \in Callers : ReadKey(c)
    \/ \E c \in Callers : ReadClone(c)
    \/ \E c \in Callers : WriteLock(c)
    \/ \E c \in Callers : WriteCheck(c)
    \/ \E c \in Callers : get_weekly_pool(c)
    \/ \E c \in Callers : get_weekly_pool_fails(c)
    \/ \E c \in Callers : Install(c)
    \/ \E c \in Callers : RequestBackup(c)
    \/ \E c \in Callers : WriteReturn(c)
    \/ \E c \in Callers : Commit(c)
    \/ \E c \in Callers : Return(c)

SpecPool == InitPool /\ [][NextPool]_vars

\* The pool together with the tasks resolving tickers through
\* DataManager::get_symbol_id.
NextSymbols ==
    \/ \E c \in Callers, t \in Tickers : CacheLookup(c, t)
    \/ \E c \in Callers : SelectId(c)
    \/ \E c \in Callers : InsertId(c)
    \/ \E c \in Callers : InsertBusy(c)
    \/ \E c \in Callers : CommitTx(c)
    \/ \E c \in Callers : CacheInsert(c)

SpecSymbols == InitPool /\ [][NextPool \/ NextSymbols]_vars

\* ------------------------------------------------- bus, run and db_writer
Range(q) == {q[i] : i \in DOMAIN q}

\* broadcast::channel rounds the capacity it is given up to a power of two.
RECURSIVE PowerOfTwoFrom(_, _)
PowerOfTwoFrom(p, n) == IF p >= n THEN p ELSE PowerOfTwoFrom(2 * p, n)

next_power_of_two(n) == PowerOfTwoFrom(1, n)

\* The slots of the bus: the last Slots events sent are retained.
Slots == next_power_of_two(capacity)

\* The oldest event the bus still holds after n sends.
Oldest(n) == IF n > Slots THEN n - Slots + 1 ELSE 1

\* A send that waited for every receiver to have a free slot (a bounded queue).
SendWaitsForReceivers == \A r \in Receivers : sent - cursor[r] + 1 < Slots

\* broadcast::Sender::send takes the next slot whatever the receivers' cursors.
SendReady == TRUE

\* MarketGateway::websocket_connection: `let _ = self.market_tx.send(..)`.
Publish ==
    /\ sent < MaxEvents
    /\ bus_open
    /\ SendReady
    /\ sent' = sent + 1
    /\ UNCHANGED <<bus_open, cursor, missed, inHand, db_rx, buffer, wpc, closing, tx,
                   persisted, failedRows, unclosed, handling>>

\* What a receiver does when recv() returns Lagged in place of an event: a
\* writer's run that treated it like a closed bus would abort its emitter and
\* go on to report the Error.
LaggedIsFatal(state) == "aborted"

\* The Lagged arm of run only logs a warning.
OnLagged(state) == state

\* recv() of a receiver other than the followed writer: the event at its
\* cursor, or Lagged and the cursor moved to the oldest retained event.
OtherRecv(r) ==
    /\ r # 1
    /\ cursor[r] <= sent
    /\ IF cursor[r] < Oldest(sent)
       THEN /\ missed' = [missed EXCEPT ![r] = @ \cup (cursor[r]..(Oldest(sent) - 1))]
            /\ cursor' = [cursor EXCEPT ![r] = Oldest(sent)]
       ELSE /\ cursor' = [cursor EXCEPT ![r] = @ + 1]
            /\ UNCHANGED missed
    /\ UNCHANGED <<sent, bus_open, inHand, db_rx, buffer, wpc, closing, tx, persisted, failedRows,
                   unclosed, handling>>

PipeRest == <<supVars, channel, nextId, kindOf, beat, archived, poolVars, gwVars, calVars, oiVars, batchVars>>

\* run, Ok(event): an event of another kind is skipped; one of the writer's
\* kind goes to the db queue with db_tx.send(..).await, which completes at once
\* when the queue has room and otherwise keeps the event in hand and waits.
RunRecv ==
    /\ run[WriterId] = "running"
    /\ inHand = 0
    /\ cursor[1] <= sent
    /\ cursor[1] >= Oldest(sent)
    /\ cursor' = [cursor EXCEPT ![1] = @ + 1]
    /\ \E mine \in BOOLEAN :
         /\ IF mine /\ Len(db_rx) < MaxQueue /\ wpc # "stopped"
            THEN db_rx' = Append(db_rx, cursor[1]) /\ inHand' = 0
            ELSE inHand' = (IF mine THEN cursor[1] ELSE 0) /\ db_rx' = db_rx
         /\ \E is_closed \in BOOLEAN :
              /\ ~is_closed => mine /\ kindOf[WriterId] = "KlinesActor"
              /\ unclosed' = IF is_closed THEN unclosed ELSE unclosed \cup {cursor[1]}
    /\ UNCHANGED <<sent, bus_open, missed, buffer, wpc, closing, tx, persisted, failedRows, handling>>
    /\ UNCHANGED <<PipeRest, run, hb>>

\* run, Err(Lagged(n)).
RunLagged ==
    /\ run[WriterId] = "running"
    /\ inHand = 0
    /\ cursor[1] < Oldest(sent)
    /\ missed' = [missed EXCEPT ![1] = @ \cup (cursor[1]..(Oldest(sent) - 1))]
    /\ cursor' = [cursor EXCEPT ![1] = Oldest(sent)]
    /\ hb' = [hb EXCEPT ![WriterId] = OnLagged(@)]
    /\ run' = [run EXCEPT ![WriterId] = IF hb'[WriterId] = "running" THEN @ ELSE "reporting"]
    /\ UNCHANGED <<sent, bus_open, inHand, db_rx, buffer, wpc, closing, tx, persisted, failedRows,
                   unclosed, handling>>
    /\ UNCHANGED PipeRest

\* run, db_tx.send(row).await that found the queue full: it completes when the
\* db queue has room again.
RunSend ==
    /\ run[WriterId] = "running"
    /\ inHand # 0
    /\ Len(db_rx) < MaxQueue
    /\ wpc # "stopped"
    /\ db_rx' = Append(db_rx, inHand)
    /\ inHand' = 0
    /\ UNCHANGED <<sent, bus_open, cursor, missed, buffer, wpc, closing, tx, persisted, failedRows,
                   unclosed, handling>>
    /\ UNCHANGED <<PipeRest, run, hb>>

\* The Supervisor aborts the run task: its future is dropped, and db_tx and
\* the event in hand with it.  (The Supervisor's tables are not followed here.)
RunAborted ==
    /\ run[WriterId] = "running"
    /\ run' = AbortAll({WriterId})
    /\ inHand' = 0
    /\ UNCHANGED <<sent, bus_open, cursor, missed, db_rx, buffer, wpc, closing, tx, persisted,
                   failedRows, unclosed, handling>>
    /\ UNCHANGED <<PipeRest, hb>>

PipeIdle == <<sent, bus_open, cursor, missed, inHand, unclosed, PipeRest, run, hb>>

\* A db_writer that pushed whatever it received.
PushedAlways(row) == TRUE

\* buffer.push(row); the klines writer receives (kline, closed) and pushes
\* `if closed` only.
Pushed(row) == kindOf[WriterId] = "KlinesActor" => row \notin unclosed

\* db_writer, Some(row): push, and flush when the buffer is full or the time
\* since the last flush has elapsed (pushed or not).
DbRecv ==
    /\ wpc = "select"
    /\ db_rx # <<>>
    /\ buffer' = IF Pushed(Head(db_rx)) THEN Append(buffer, Head(db_rx)) ELSE buffer
    /\ db_rx' = Tail(db_rx)
    /\ \E elapsed \in BOOLEAN :
         wpc' = IF Len(buffer') >= BatchSize \/ elapsed THEN "get" ELSE "select"
    /\ handling' = IF wpc' = "get" THEN Head(db_rx) ELSE 0
    /\ UNCHANGED <<closing, tx, persisted, failedRows, PipeIdle>>

\* db_writer, the sleep branch of select! (the klines writer has none).
DbTimer ==
    /\ wpc = "select"
    /\ kindOf[WriterId] # "KlinesActor"
    /\ buffer # <<>>
    /\ wpc' = "get"
    /\ UNCHANGED <<db_rx, buffer, closing, tx, persisted, failedRows, handling, PipeIdle>>

\* A queue whose recv() would yield None as soon as the sender is gone.
NoneWhileQueued == TRUE

\* mpsc::Receiver::recv yields None only when every queued row was taken.
QueueDrained == db_rx = <<>>

\* db_writer, None: the queue is empty and db_tx was dropped with run.
DbClosed ==
    /\ wpc = "select"
    /\ QueueDrained
    /\ run[WriterId] \notin {"running", "reporting"}
    /\ wpc' = IF buffer = <<>> THEN "stopped" ELSE "get"
    /\ closing' = TRUE
    /\ UNCHANGED <<db_rx, buffer, tx, persisted, failedRows, handling, PipeIdle>>

\* The end of flush_batch and what db_writer does next: buffer.clear() and
\* back to select!, or break out of the loop (the buffer is dropped).
FlushEnds(ok) ==
    /\ failedRows' = IF ok THEN failedRows ELSE failedRows \cup Range(buffer)
    /\ buffer' = <<>>
    /\ tx' = <<>>
    /\ wpc' = IF closing THEN "stopped" ELSE "select"
    /\ handling' = 0

\* The pool handle is obtained (get_pool returns Ok) and pool.begin() opens
\* the transaction.
GetOk ==
    /\ wpc = "get"
    /\ wpc' = "insert"
    /\ tx' = <<>>
    /\ UNCHANGED <<db_rx, buffer, closing, persisted, failedRows, handling, PipeIdle>>

\* The pool handle is not obtained (get_weekly_pool fails inside get_pool).
\* flush_batch of a retrying writer logs and sleeps; insert_batch of the
\* others returns the error with `?`, flush_batch logs it and returns.
GetErr ==
    /\ wpc = "get"
    /\ IF kindOf[WriterId] \in RetryingWriters
       THEN /\ wpc' = "backoff"
            /\ UNCHANGED <<buffer, tx, failedRows, handling>>
       ELSE FlushEnds(FALSE)
    /\ UNCHANGED <<db_rx, closing, persisted, PipeIdle>>

\* time::sleep(Duration::from_secs(5)) of the retry loop is over.
Backoff ==
    /\ wpc = "backoff"
    /\ wpc' = "get"
    /\ UNCHANGED <<db_rx, buffer, closing, tx, persisted, failedRows, handling, PipeIdle>>

\* A statement executed on the pool itself would be durable at once.
ExecutedOnPool(rows, row) == rows \cup {row}

\* A statement executed on the transaction (`.execute(&mut *tx)`) changes
\* nothing durable before the commit.
Executed(rows, row) == rows

\* insert_batch: the INSERT of the next row of the batch.
InsertRow ==
    /\ wpc = "insert"
    /\ Len(tx) < Len(buffer)
    /\ tx' = Append(tx, buffer[Len(tx) + 1])
    /\ persisted' = Executed(persisted, buffer[Len(tx) + 1])
    /\ UNCHANGED <<db_rx, buffer, wpc, closing, failedRows, handling, PipeIdle>>

\* insert_batch: begin, get_symbol_id, an INSERT or the commit fails; `?`
\* returns, the transaction is dropped and rolls back.  (An empty batch
\* returns Ok before anything can fail.)
InsertFails ==
    /\ wpc = "insert"
    /\ buffer # <<>>
    /\ FlushEnds(FALSE)
    /\ UNCHANGED <<db_rx, closing, persisted, PipeIdle>>

\* insert_batch: tx.commit() succeeds after the last INSERT.
CommitBatch ==
    /\ wpc = "insert"
    /\ Len(tx) = Len(buffer)
    /\ persisted' = persisted \cup Range(tx)
    /\ FlushEnds(TRUE)
    /\ UNCHANGED <<db_rx, closing, PipeIdle>>

\* A registered writer right after Supervisor::start spawned it.
InitPipeline ==
    /\ RotatingPoolNew(0, 0)
    /\ PipelineNew
    /\ NoGateway
    /\ NoDate /\ NoPoller /\ NoBatch
    /\ \E kind \in Writers :
        /\ actor_factories = {kind}
        /\ actor_types = (WriterId :> kind)
        /\ kindOf = [i \in Ids |-> IF i = WriterId THEN kind ELSE "none"]
    /\ supervisor = "running"
    /\ pulses = (WriterId :> 0)
    /\ handles = (WriterId :> WriterId)
    /\ channel = <<>>
    /\ nextId = WriterId + 1
    /\ run = [i \in Ids |-> IF i = WriterId THEN "running" ELSE "none"]
    /\ hb = [i \in Ids |-> IF i = WriterId THEN "running" ELSE "none"]
    /\ beat = [i \in Ids |-> Stale]
    /\ archived = [i \in Ids |-> NoFile]

\* One writer from the bus to the database; the other receivers are not
\* followed.
NextWriter ==
    \/ Publish /\ UNCHANGED <<PipeRest, run, hb>>
    \/ RunRecv
    \/ RunLagged
    \/ RunSend
    \/ RunAborted
    \/ DbRecv
    \/ DbTimer
    \/ DbClosed
    \/ GetOk
    \/ GetErr
    \/ Backoff
    \/ InsertRow
    \/ InsertFails
    \/ CommitBatch

SpecWriter == InitPipeline /\ [][NextWriter]_vars

\* The last Sender of the bus is dropped: the bus is closed.
BusCloses ==
    /\ bus_open
    /\ bus_open' = FALSE
    /\ UNCHANGED <<sent, cursor, missed, inHand, db_rx, buffer, wpc, closing, tx,
                   persisted, failedRows, unclosed, handling>>
    /\ UNCHANGED <<PipeRest, run, hb>>

\* run, Err(RecvError::Closed): the bus is closed and the receiver has taken
\* every event it held; heartbeat_handle.abort(), then the Error is awaited
\* into the control channel.
RunClosed ==
    /\ run[WriterId] = "running"
    /\ inHand = 0
    /\ ~bus_open
    /\ cursor[1] > sent
    /\ hb' = [hb EXCEPT ![WriterId] = "aborted"]
    /\ run' = [run EXCEPT ![WriterId] = "reporting"]
    /\ UNCHANGED <<sent, bus_open, cursor, missed, inHand, db_rx, buffer, wpc, closing, tx,
                   persisted, failedRows, unclosed, handling>>
    /\ UNCHANGED PipeRest

\* ... the Error is queued and run bails: its locals, db_tx among them, are
\* dropped.
RunReports ==
    /\ WriterReports(WriterId)
    /\ UNCHANGED <<poolVars, pipeVars, gwVars, calVars, oiVars, batchVars>>

\* One writer from the bus to the database, with the closure of the bus.
NextClosure ==
    \/ NextWriter
    \/ BusCloses
    \/ RunClosed
    \/ RunReports

SpecClosure == InitPipeline /\ [][NextClosure]_vars

\* One step of the detached db_writer task.
DrainStep ==
    \/ DbRecv
    \/ DbTimer
    \/ DbClosed
    \/ GetOk
    \/ GetErr
    \/ Backoff
    \/ InsertRow
    \/ InsertFails
    \/ CommitBatch

\* The same writer with the runtime's scheduling: db_writer was handed to
\* tokio::spawn, so whenever it can take a step it eventually takes one.
SpecDrain == SpecClosure /\ WF_vars(DrainStep)

\* The bus and its receivers up to the writer's db queue; the consumer of the
\* queue is not followed (run waits in send once the queue is full).
NextBus ==
    \/ Publish /\ UNCHANGED <<PipeRest, run, hb>>
    \/ \E r \in Receivers : OtherRecv(r) /\ UNCHANGED <<PipeRest, run, hb>>
    \/ RunRecv
    \/ RunLagged
    \/ RunAborted

SpecBus == InitPipeline /\ [][NextBus]_vars

\* ------------------------------------------------- MarketGateway connection
\* The gateway the connection specification follows.
GatewayId == 1

\* What read.next() can yield on an open connection: a text frame that
\* decodes to an event; text that is not JSON, whose payload does not match
\* its stream tag, or whose stream tag is unknown; a ping; any other message
\* (binary, pong); a close frame; a read error.
Frames == {"event", "invalid_json", "payload_mismatch", "unknown_tag",
           "ping", "other", "close", "read_error"}

\* parse_websocket_message: Ok for a decodable frame, Err for the three
\* undecodable kinds (serde_json::from_str?, from_value? / to_insertable?, bail!).
parse_websocket_message(f) == IF f = "event" THEN "Ok" ELSE "Err"

Undecodable == {"invalid_json", "payload_mismatch", "unknown_tag"}

GwRest == <<supVars, nextId, kindOf, run, hb, beat, archived, poolVars,
            cursor, missed, inHand, db_rx, buffer, wpc, closing, tx, persisted,
            failedRows, unclosed, handling, bus_open, calVars, oiVars, batchVars>>

\* tokio_tungstenite::connect_async(url).await
Connect ==
    /\ Alive
    /\ run[GatewayId] = "running"
    /\ conn = "connecting"
    /\ \E ok \in BOOLEAN : conn' = IF ok THEN "open" ELSE "connect_failed"
    /\ UNCHANGED <<frame, channel, sent, GwRest>>

\* The Err arm of connect_async: the Error is awaited into the control
\* channel...
ReportConnect ==
    /\ Alive
    /\ run[GatewayId] = "running"
    /\ conn = "connect_failed"
    /\ Send(Msg("Error", GatewayId))
    /\ conn' = "sleeping"
    /\ UNCHANGED <<frame, sent, GwRest>>

\* ... and time::sleep(Duration::from_secs(2)) is over: the loop connects again.
Sleep ==
    /\ Alive
    /\ run[GatewayId] = "running"
    /\ conn = "sleeping"
    /\ conn' = "connecting"
    /\ UNCHANGED <<frame, channel, sent, GwRest>>

\* A read loop that gave up the connection after reporting a frame.
BreakAfterReport == "connecting"

\* `continue` after the Error of a frame was sent: the while loop reads on.
AfterReport == "open"

\* `break` on Message::Close or on a read error: the while loop ends and the
\* outer loop goes straight to connect_async.
AfterSevered == "connecting"

BusIdle == <<bus_open, cursor, missed, inHand, db_rx, buffer, wpc, closing, tx, persisted,
             failedRows, unclosed, handling>>

\* One round of `while let Some(msg) = read.next().await`.
ReadFrame(f) ==
    /\ Alive
    /\ run[GatewayId] = "running"
    /\ conn = "open"
    /\ IF f \in {"event"} \cup Undecodable
       THEN IF parse_websocket_message(f) = "Ok"
            THEN Publish /\ UNCHANGED <<conn, frame>>
            ELSE conn' = "reporting" /\ frame' = f /\ UNCHANGED <<sent, BusIdle>>
       ELSE CASE f = "ping" -> UNCHANGED <<conn, frame, sent, BusIdle>>
              [] f \in {"close", "read_error"} ->
                     conn' = AfterSevered /\ UNCHANGED <<frame, sent, BusIdle>>
              [] OTHER -> conn' = "reporting" /\ frame' = f /\ UNCHANGED <<sent, BusIdle>>
    /\ UNCHANGED <<channel, supVars, nextId, kindOf, run, hb, beat, archived, poolVars,
                   calVars, oiVars, batchVars>>

\* supervisor_tx.send(ControlMessage::Error(self.id, ..)).await?; continue
ReportFrame ==
    /\ Alive
    /\ run[GatewayId] = "running"
    /\ conn = "reporting"
    /\ Send(Msg("Error", GatewayId))
    /\ conn' = AfterReport
    /\ UNCHANGED <<frame, sent, GwRest>>

\* The gateway right after Supervisor::start spawned it.
InitGateway ==
    /\ RotatingPoolNew(0, 0)
    /\ PipelineNew
    /\ NoDate /\ NoPoller /\ NoBatch
    /\ conn = "connecting"
    /\ frame = "none"
    /\ supervisor = "running"
    /\ actor_factories = {"GatewayActor"}
    /\ actor_types = (GatewayId :> "GatewayActor")
    /\ kindOf = [i \in Ids |-> IF i = GatewayId THEN "GatewayActor" ELSE "none"]
    /\ pulses = (GatewayId :> 0)
    /\ handles = (GatewayId :> GatewayId)
    /\ channel = <<>>
    /\ nextId = GatewayId + 1
    /\ run = [i \in Ids |-> IF i = GatewayId THEN "running" ELSE "none"]
    /\ hb = [i \in Ids |-> IF i = GatewayId THEN "running" ELSE "none"]
    /\ beat = [i \in Ids |-> Stale]
    /\ archived = [i \in Ids |-> NoFile]

\* One connection of the gateway, its heartbeat emitter, and the Supervisor
\* taking Heartbeat and Error messages off the control channel.
NextGateway ==
    \/ Connect
    \/ ReportConnect
    \/ Sleep
    \/ \E f \in Frames : ReadFrame(f)
    \/ ReportFrame
    \/ EmitHeartbeat(GatewayId) /\ UNCHANGED <<poolVars, pipeVars, gwVars, calVars, oiVars, batchVars>>
    \/ RecvHeartbeat /\ UNCHANGED <<poolVars, pipeVars, gwVars, calVars, oiVars, batchVars>>
    \/ RecvError /\ UNCHANGED <<poolVars, pipeVars, gwVars, calVars, oiVars, batchVars>>
    \/ Advance /\ UNCHANGED <<poolVars, pipeVars, gwVars, calVars, oiVars, batchVars>>

SpecGateway == InitGateway /\ [][NextGateway]_vars

\* ------------------------------------------------------- ISO-week calendar
\* The date component functions of db.rs on calendar dates.  A date is its
\* number of days since EpochDate; the time of day plays no part, since
\* Duration::weeks(1) is a whole number of days and iso_week() reads the date.
MaxYears == 4

\* Day 0: 2024-01-01, a Monday.
EpochDate == <<2024, 1, 1>>

IsLeap(y) == (y % 4 = 0 /\ y % 100 # 0) \/ y % 400 = 0

DaysIn(y) == IF IsLeap(y) THEN 366 ELSE 365

MonthDays(y) ==
    <<31, IF IsLeap(y) THEN 29 ELSE 28, 31, 30, 31, 30, 31, 31, 30, 31, 30, 31>>

RECURSIVE Jan1(_)
\* the day number of 1 January of year y
Jan1(y) == IF y <= EpochDate[1] THEN 0 ELSE Jan1(y - 1) + DaysIn(y - 1)

RECURSIVE DaysBefore(_, _)
\* the days of year y before its month m
DaysBefore(y, m) == IF m <= 1 THEN 0 ELSE DaysBefore(y, m - 1) + MonthDays(y)[m - 1]

\* Utc.with_ymd_and_hms(y, m, d, ..): the day number of a calendar date
with_ymd(y, m, d) == Jan1(y) + DaysBefore(y, m) + d - 1

Years == EpochDate[1]..(EpochDate[1] + MaxYears)

\* Datelike::year
YearOf(date) == CHOOSE y \in Years : Jan1(y) <= date /\ date < Jan1(y + 1)

\* Datelike::weekday, 0 = Monday (EpochDate is a Monday)
Weekday(date) == date % 7

\* Datelike::iso_week: the ISO week of a date is the week (Monday to Sunday)
\* it lies in, numbered within the calendar year of that week's Thursday.
iso_week(date) ==
    LET thursday == date - Weekday(date) + 3
        y == YearOf(thursday)
    IN  <<y, ((thursday - Jan1(y)) \div 7) + 1>>

\* get_date_components on a calendar date
date_components(date) == iso_week(date)

\* Duration::weeks(n), in days
DurationWeeks(n) == 7 * n

\* A previous-week computation that decrements the week number.
previous_by_decrement(date) ==
    <<date_components(date)[1], date_components(date)[2] - 1>>

\* get_previous_iso_week_components on a calendar date:
\* get_date_components(date - Duration::weeks(1))
previous_iso_week_components(date) == date_components(date - DurationWeeks(1))

\* The dates Utc::now() is drawn from: every day of MaxYears years from the
\* second week of the epoch year on.
Dates == DurationWeeks(1)..(Jan1(EpochDate[1] + MaxYears) - 1)

InitCalendar ==
    /\ SupervisorNew
    /\ RotatingPoolNew(0, 0)
    /\ PipelineNew
    /\ NoGateway
    /\ NoPoller /\ NoBatch
    /\ now \in Dates
    /\ weeks = [cur |-> NoFile, prev |-> NoFile]

CalRest == <<supVars, channel, nextId, kindOf, run, hb, beat, archived, poolVars,
             pipeVars, gwVars, oiVars, batchVars>>

\* get_weekly_pool: get_date_components(Utc::now()) names the partition file
NamePartition ==
    /\ weeks.cur = NoFile
    /\ weeks' = [weeks EXCEPT !.cur = date_components(now)]
    /\ UNCHANGED <<now, CalRest>>

\* BackupOneShotActor::run: get_previous_iso_week_components(Utc::now()) names
\* the file to archive
NameArchive ==
    /\ weeks.prev = NoFile
    /\ weeks' = [weeks EXCEPT !.prev = previous_iso_week_components(now)]
    /\ UNCHANGED <<now, CalRest>>

NextCalendar == NamePartition \/ NameArchive

SpecCalendar == InitCalendar /\ [][NextCalendar]_vars

\* --------------------------------------------------- open-interest poller
MaxSymbols == 2
MaxPasses == 2

\* self.symbols, by position
Symbols == 1..MaxSymbols

\* let max_retries = 3
max_retries == 3

\* What the server (or the transport) answers to one make_request.
Responses == {"ok", "429", "418", "send_failed", "bad_header", "bad_json"}

RateLimited == {"429", "418"}

\* make_request: the message of the error it returns (words of to_string()),
\* or <<>> for Ok(data).
make_request(resp) ==
    CASE resp = "429" -> <<"HTTP", "429", ":", "Too", "Many", "Requests">>
      [] resp = "418" -> <<"HTTP", "418", ":", "IP", "has", "been", "auto-banned">>
      [] resp = "send_failed" -> <<"Failed", "to", "send", "request">>
      [] resp = "bad_header" -> <<"Invalid", "weight", "header">>
      [] resp = "bad_json" -> <<"Failed", "to", "parse", "JSON", "response">>
      [] OTHER -> <<>>

\* str::contains, on words
contains(text, pattern) ==
    \E k \in 0..(Len(text) - Len(pattern)) :
        SubSeq(text, k + 1, k + Len(pattern)) = pattern

\* BinancePoller::is_rate_limit_error
is_rate_limit_error(error) ==
    \/ contains(error, <<"429">>)
    \/ contains(error, <<"418">>)
    \/ contains(error, <<"Too", "Mani", "Requests">>)
    \/ contains(error, <<"auto-banned">>)

\* bail!("Max retries exceeded for rate limit")
MaxRetriesError == <<"Max", "retries", "exceeded", "for", "rate", "limit">>

\* bail!("Failed to fetch open interest for {}: {}", symbol, e)
FetchError(e) ==
    <<"Failed", "to", "fetch", "open", "interest", "for", "symbol", ":">> \o e

\* A back-off that does not grow.
backoff_fixed(retry_count) == 2

\* let backoff_seconds = 2_u64.pow(retry_count)
backoff(retry_count) == 2 ^ retry_count

\* fetch_single_open_interest, one round of its loop on the response resp:
\* what the round ends in ("ok", "retry" or "err"), and the error returned.
fetch_single_round(resp, retry_count) ==
    LET e == make_request(resp) IN
    IF e = <<>> THEN [end |-> "ok", error |-> <<>>]
    ELSE IF is_rate_limit_error(e)
         THEN IF retry_count + 1 > max_retries
              THEN [end |-> "err", error |-> MaxRetriesError]
              ELSE [end |-> "retry", error |-> <<>>]
         ELSE [end |-> "err", error |-> FetchError(e)]

OiRest == <<supVars, channel, nextId, kindOf, run, hb, beat, archived, poolVars,
            cursor, missed, inHand, db_rx, buffer, wpc, closing, tx, persisted,
            failedRows, unclosed, handling, bus_open, gwVars, calVars, batchVars>>

\* oi_connection calls fetch_all_open_interest: the first symbol is requested
\* without a delay (`if i > 0`).
StartPass ==
    /\ poller.pc = "idle"
    /\ poller.passes < MaxPasses
    /\ poller' = [poller EXCEPT !.pc = "request", !.i = 1, !.retry_count = 0,
                                !.backoff_seconds = 0, !.results = <<>>,
                                !.slept = <<>>]
    /\ UNCHANGED <<sent, OiRest>>

\* sleep(Duration::from_millis(self.request_delay_ms)) before symbol i > 0,
\* then the permit and the first make_request of fetch_single_open_interest.
Delay ==
    /\ poller.pc = "delay"
    /\ poller' = [poller EXCEPT !.pc = "request", !.paused = TRUE]
    /\ UNCHANGED <<sent, OiRest>>

\* sleep(Duration::from_secs(backoff_seconds)); continue
BackoffSleep ==
    /\ poller.pc = "backoff"
    /\ poller' = [poller EXCEPT !.pc = "request", !.paused = TRUE,
                                !.slept = Append(@, poller.backoff_seconds)]
    /\ UNCHANGED <<sent, OiRest>>

\* The results of a pass that oi_connection publishes as OpenInterest events.
Published(results) == Cardinality({k \in DOMAIN results : results[k] = "Ok"})

\* make_request returns.  fetch_single_open_interest retries after a back-off,
\* or returns; fetch_all_open_interest then breaks on a rate-limit error, or
\* pushes the result and goes on to the next symbol; after the last symbol, or
\* the break, it returns Ok(results) and oi_connection publishes every Ok.
Respond(resp) ==
    /\ poller.pc = "request"
    /\ LET round == fetch_single_round(resp, poller.retry_count)
           stop == round.end = "err" /\ is_rate_limit_error(round.error)
           results == IF stop THEN poller.results
                      ELSE Append(poller.results, IF round.end = "ok" THEN "Ok" ELSE "Err")
       IN
       IF round.end = "retry"
       THEN /\ poller' = [poller EXCEPT !.pc = "backoff", !.last = resp,
                                        !.paused = FALSE,
                                        !.retry_count = @ + 1,
                                        !.backoff_seconds = backoff(poller.retry_count + 1)]
            /\ UNCHANGED sent
       ELSE IF ~stop /\ poller.i < MaxSymbols
       THEN /\ poller' = [poller EXCEPT !.pc = "delay", !.last = resp,
                                        !.paused = FALSE,
                                        !.i = @ + 1, !.retry_count = 0,
                                        !.backoff_seconds = 0, !.slept = <<>>,
                                        !.results = results]
            /\ UNCHANGED sent
       ELSE /\ sent + Published(results) <= MaxEvents
            /\ poller' = [poller EXCEPT !.pc = "idle", !.last = resp,
                                        !.paused = FALSE,
                                        !.i = 0, !.retry_count = 0,
                                        !.backoff_seconds = 0, !.slept = <<>>,
                                        !.results = results,
                                        !.passes = @ + 1]
            /\ sent' = sent + Published(results)
    /\ UNCHANGED OiRest

\* MarketGateway::oi_connection with BinancePoller, in a running gateway.
NextPoller ==
    \/ StartPass
    \/ Delay
    \/ BackoffSleep
    \/ \E resp \in Responses : Respond(resp)

SpecPoller == InitGateway /\ [][NextPoller]_vars

\* The pool together with the Supervisor receiving the Spawn requests and the
\* archival workers it starts: supervisor.start() with nothing registered,
\* the Spawn and Shutdown arms, and BackupOneShotActor::run.
NextArchive ==
    \/ Start /\ UNCHANGED <<poolVars, pipeVars, gwVars, calVars, oiVars, batchVars>>
    \/ RecvSpawn /\ UNCHANGED <<poolVars, pipeVars, gwVars, calVars, oiVars, batchVars>>
    \/ RecvShutdown /\ UNCHANGED <<poolVars, pipeVars, gwVars, calVars, oiVars, batchVars>>
    \/ \E id \in Ids : BackupSucceeds(id) /\ UNCHANGED <<poolVars, pipeVars, gwVars, calVars, oiVars, batchVars>>
    \/ \E id \in Ids : BackupScriptFails(id) /\ UNCHANGED <<poolVars, pipeVars, gwVars, calVars, oiVars, batchVars>>
    \/ \E id \in Ids : BackupExecFails(id) /\ UNCHANGED <<poolVars, pipeVars, gwVars, calVars, oiVars, batchVars>>
    \/ \E id \in Ids : BackupPanics(id) /\ UNCHANGED <<poolVars, pipeVars, gwVars, calVars, oiVars, batchVars>>

SpecArchive == InitPool /\ [][NextPool \/ NextArchive]_vars

\* The archival workers alone under a started Supervisor with nothing
\* registered: the rotation's Spawn request, the Spawn, Heartbeat and Shutdown
\* arms, the liveness tick, BackupOneShotActor::run and its emitter.
NextOneShot ==
    \/ Start /\ UNCHANGED <<poolVars, pipeVars, gwVars, calVars, oiVars, batchVars>>
    \/ RotationRequestsBackup /\ UNCHANGED <<poolVars, pipeVars, gwVars, calVars, oiVars, batchVars>>
    \/ RecvSpawn /\ UNCHANGED <<poolVars, pipeVars, gwVars, calVars, oiVars, batchVars>>
    \/ RecvHeartbeat /\ UNCHANGED <<poolVars, pipeVars, gwVars, calVars, oiVars, batchVars>>
    \/ RecvShutdown /\ UNCHANGED <<poolVars, pipeVars, gwVars, calVars, oiVars, batchVars>>
    \/ Tick /\ UNCHANGED <<poolVars, pipeVars, gwVars, calVars, oiVars, batchVars>>
    \/ Advance /\ UNCHANGED <<poolVars, pipeVars, gwVars, calVars, oiVars, batchVars>>
    \/ \E id \in Ids : EmitHeartbeat(id) /\ UNCHANGED <<poolVars, pipeVars, gwVars, calVars, oiVars, batchVars>>
    \/ \E id \in Ids : BackupSucceeds(id) /\ UNCHANGED <<poolVars, pipeVars, gwVars, calVars, oiVars, batchVars>>
    \/ \E id \in Ids : BackupScriptFails(id) /\ UNCHANGED <<poolVars, pipeVars, gwVars, calVars, oiVars, batchVars>>
    \/ \E id \in Ids : BackupExecFails(id) /\ UNCHANGED <<poolVars, pipeVars, gwVars, calVars, oiVars, batchVars>>
    \/ \E id \in Ids : BackupPanics(id) /\ UNCHANGED <<poolVars, pipeVars, gwVars, calVars, oiVars, batchVars>>

SpecOneShot == Init /\ [][NextOneShot]_vars

Next ==
    \/ \E kind \in Registrable : register_actor(kind) /\ UNCHANGED <<poolVars, pipeVars, gwVars, calVars, oiVars, batchVars>>
    \/ Start /\ UNCHANGED <<poolVars, pipeVars, gwVars, calVars, oiVars, batchVars>>
    \/ RecvSpawn /\ UNCHANGED <<poolVars, pipeVars, gwVars, calVars, oiVars, batchVars>>
    \/ RecvHeartbeat /\ UNCHANGED <<poolVars, pipeVars, gwVars, calVars, oiVars, batchVars>>
    \/ RecvShutdown /\ UNCHANGED <<poolVars, pipeVars, gwVars, calVars, oiVars, batchVars>>
    \/ RecvError /\ UNCHANGED <<poolVars, pipeVars, gwVars, calVars, oiVars, batchVars>>
    \/ Tick /\ UNCHANGED <<poolVars, pipeVars, gwVars, calVars, oiVars, batchVars>>
    \/ Advance /\ UNCHANGED <<poolVars, pipeVars, gwVars, calVars, oiVars, batchVars>>
    \/ RotationRequestsBackup /\ UNCHANGED <<poolVars, pipeVars, gwVars, calVars, oiVars, batchVars>>
    \/ \E id \in Ids : EmitHeartbeat(id) /\ UNCHANGED <<poolVars, pipeVars, gwVars, calVars, oiVars, batchVars>>
    \/ \E id \in Ids : GatewayReportsError(id) /\ UNCHANGED <<poolVars, pipeVars, gwVars, calVars, oiVars, batchVars>>
    \/ \E id \in Ids : GatewayDriverEnds(id) /\ UNCHANGED <<poolVars, pipeVars, gwVars, calVars, oiVars, batchVars>>
    \/ \E id \in Ids : WriterFails(id) /\ UNCHANGED <<poolVars, pipeVars, gwVars, calVars, oiVars, batchVars>>
    \/ \E id \in Ids : WriterReports(id) /\ UNCHANGED <<poolVars, pipeVars, gwVars, calVars, oiVars, batchVars>>
    \/ \E id \in Ids : BackupSucceeds(id) /\ UNCHANGED <<poolVars, pipeVars, gwVars, calVars, oiVars, batchVars>>
    \/ \E id \in Ids : BackupScriptFails(id) /\ UNCHANGED <<poolVars, pipeVars, gwVars, calVars, oiVars, batchVars>>
    \/ \E id \in Ids : BackupExecFails(id) /\ UNCHANGED <<poolVars, pipeVars, gwVars, calVars, oiVars, batchVars>>
    \/ \E id \in Ids : BackupPanics(id) /\ UNCHANGED <<poolVars, pipeVars, gwVars, calVars, oiVars, batchVars>>

Spec == Init /\ [][Next]_vars

\* The variants of MarketEvent the gateway publishes (websocket_connection
\* through parse_websocket_message, and oi_connection).
Variants == {"AggTrade", "OrderBook", "Kline", "MarkPrice", "ForceOrder", "OpenInterest"}

\* The variant the run loop of a writer kind matches (`if let MarketEvent::..`).
Consumes(kind) ==
    CASE kind = "AggTradeActor"   -> "AggTrade"
      [] kind = "OrderBookActor"  -> "OrderBook"
      [] kind = "KlinesActor"     -> "Kline"
      [] kind = "MarkPriceActor"  -> "MarkPrice"
      [] kind = "ForceOrderActor" -> "ForceOrder"
      [] OTHER                    -> "none"

\* Every kind main registers a factory for, and main having registered them
\* all (the statement before supervisor.start()).
MainRegisters == {"GatewayActor"} \cup Writers

\* The control plane with every registration main makes.
NextMain ==
    \/ \E kind \in MainRegisters : register_actor(kind) /\ UNCHANGED <<poolVars, pipeVars, gwVars, calVars, oiVars, batchVars>>
    \/ Next

SpecMain == Init /\ [][NextMain]_vars

\* ================================================================ claims
Running(id) == run[id] \in {"running", "reporting"}

IdsOfKind(k) == {id \in DOMAIN actor_types : actor_types[id] = k}

Tables == DOMAIN pulses \cup DOMAIN handles \cup DOMAIN actor_types

\* C1: after start-up and after any sequence of control messages and ticks,
\* the Supervisor's tables hold at most one worker id per registered
\* (non-Dynamic) kind; Dynamic ids are not limited.
C1_OnePerRegisteredKind ==
    \A k \in ActorType \ {"Dynamic"} : Cardinality(IdsOfKind(k)) <= 1

\* C1 witness: a registered kind was restarted, so its single id is not one
\* of the ids handed out at start-up.
C1_Witness ==
    /\ supervisor = "running"
    /\ \E id \in DOMAIN actor_types :
          /\ actor_types[id] \in actor_factories
          /\ id > Cardinality(actor_factories)
          /\ id \in DOMAIN handles /\ id \in DOMAIN pulses

\* C2: in every reachable state the three tables agree on their ids
\* (an id has a pulse iff it has a handle iff it has a kind).
C2_TablesAgree ==
    /\ DOMAIN pulses = DOMAIN handles
    /\ DOMAIN handles = DOMAIN actor_types

\* C3: at a liveness tick, every worker (an id that has a kind) whose pulse
\* is older than the timeout is cancelled and removed from all three tables
\* and, when its kind is registered, a new instance of that kind with a
\* fresh id is in the tables after the tick.
C3_TickReapsAndRestarts ==
    [][Tick =>
        \A id \in dead_actors \cap DOMAIN actor_types :
            /\ ~Running(id)'
            /\ id \notin Tables'
            /\ actor_types[id] \in actor_factories =>
                  \E n \in DOMAIN actor_types' \ Tables :
                      /\ actor_types'[n] = actor_types[id]
                      /\ n \in DOMAIN handles' /\ n \in DOMAIN pulses'
                      /\ Running(n)']_vars

\* C4: the Supervisor's main loop never panics (and never ends).
C4_SupervisorNeverPanics == supervisor # "panicked"

\* C5: a worker whose run ended with an error or a panic no longer has a
\* running heartbeat emitter (so that its pulse goes stale and it is reaped).
C5_FailedRunStopsBeating ==
    \A id \in Ids : run[id] \in {"err", "panic"} => hb[id] # "running"

\* C6: once a worker's run has ended, on any terminal path, or was cancelled
\* by the Supervisor, its heartbeat emitter is not running any more.
C6_EmitterEndsWithRun ==
    \A id \in Ids : hb[id] = "running" => Running(id)

\* C7: when a Dynamic worker times out, the tick removes it from all tables
\* and no worker is spawned in its place.
C7_DynamicRemovedNotRestarted ==
    [][Tick =>
        \A id \in dead_actors \cap IdsOfKind("Dynamic") :
            /\ id \notin Tables'
            /\ IdsOfKind("Dynamic")' \subseteq IdsOfKind("Dynamic")
            /\ Cardinality(DOMAIN handles' \ DOMAIN handles)
                 = Cardinality(Restarted(dead_actors \cap DOMAIN actor_types))]_vars

\* The step in which the Supervisor handles the Error at the head of the
\* channel.
ErrorStep ==
    /\ supervisor = "running"
    /\ channel # <<>>
    /\ Head(channel).type = "Error"
    /\ channel' = Tail(channel)

\* C8: handling Error(id, _) cancels no task and spawns no worker; the only
\* change to the Supervisor's state is that id's pulse is set to now.
C8_ErrorOnlyRefreshesPulse ==
    [][ErrorStep =>
        LET id == Head(channel).id IN
        /\ run' = run /\ hb' = hb /\ nextId' = nextId
        /\ handles' = handles /\ actor_types' = actor_types
        /\ supervisor' = supervisor /\ actor_factories' = actor_factories
        /\ DOMAIN pulses' = DOMAIN pulses \cup {id}
        /\ pulses'[id] = 0
        /\ \A j \in DOMAIN pulses \ {id} : pulses'[j] = pulses[j]]_vars

\* C8 witness: a writer reported an Error, the Supervisor has handled it
\* (nothing is in flight), and the writer's ended task still has its handle
\* and a fresh pulse.
C8_Witness ==
    \E id \in DOMAIN handles :
        /\ kindOf[id] \in Writers
        /\ run[id] = "err"
        /\ channel = <<>>
        /\ id \in DOMAIN pulses /\ pulses[id] = 0
        /\ beat[id] > 0

\* C9: the liveness check cancels or removes a worker only if no Heartbeat
\* of it was handled during the timeout before the tick.
C9_ReapedOnlyWhenSilent ==
    [][\A id \in Ids :
          (/\ \/ Running(id) /\ ~Running(id)'
              \/ id \in DOMAIN handles \ DOMAIN handles'
           /\ Tick)
          => beat[id] > timeout_duration]_vars

\* C9 witness: a gateway whose emitter was aborted went silent and the tick
\* replaced it; its successor is running.
C9_Witness ==
    \E id \in IdsOfKind("GatewayActor") :
        /\ id > Cardinality(actor_factories)
        /\ Running(id)
        /\ \E old \in Ids \ Tables : old < id /\ hb[old] = "aborted"

\* ---------------------------------------------------------------- C10
\* A get_pool call has just returned a pool.
Returns(c) == pc[c] # "done" /\ pc'[c] = "done" /\ ret'[c].ok

\* C10: rotation is atomic for readers.  Whenever a get_pool call returns a
\* pool, under any interleaving with other calls and with a rotation, the key
\* the call read under its guard and the pool it returns are the two halves of
\* the pair the RotatingPool holds at that moment (never the key of one pair
\* with the pool of another), and the pool is not older than the one that was
\* installed when the call began.
C10_RotationAtomicForReaders ==
    [][\A c \in Callers :
          Returns(c) =>
              /\ inner' = [key |-> seenKey'[c], pool |-> ret'[c].pool]
              /\ ret'[c].pool.id >= startSerial[c]]_vars

\* Two calls overlapped a rotation: one began under the old pool, the other
\* installed the new pool, and both returned the new one.
C10_Witness ==
    \E c, d \in Callers :
        /\ c # d
        /\ pc[c] = "done" /\ ret[c].ok /\ ~ret[c].rotated
        /\ pc[d] = "done" /\ ret[d].ok /\ ret[d].rotated
        /\ ret[c].pool = ret[d].pool
        /\ ret[c].pool = newPool[d]
        /\ startSerial[c] < ret[c].pool.id

\* ---------------------------------------------------------------- C11
\* A finished get_pool call created and installed a new pool itself.
InstalledByCall(c) == newPool[c] # NoPool

\* C11: a get_pool call returns rotated = true exactly when that call itself
\* created and installed a new pool; the fast path, and a slow path that finds
\* the rotation already done by a concurrent caller, return rotated = false.
C11_RotatedIffInstalled ==
    \A c \in Callers :
        (pc[c] = "done" /\ ret[c].ok) => (ret[c].rotated <=> InstalledByCall(c))

\* ---------------------------------------------------------------- C12
\* The rotations completed so far: every pool opened after the first has
\* been installed, except one a caller still holds in new_pool.
Rotations == poolCount - 1 - Cardinality({c \in Callers : pc[c] = "install"})

\* The Spawn messages the control channel accepted from rotations.
SpawnsAccepted == Cardinality({i \in Ids : retired[i] # 0})

\* C12: each rotation hands exactly one Spawn message to the Supervisor,
\* whatever the number of concurrent callers and the fill level of the control
\* channel: once no rotation is between its install and its try_send, as many
\* Spawn messages were accepted as rotations took place.
C12_OneSpawnPerRotation ==
    (\A c \in Callers : pc[c] # "spawn") => SpawnsAccepted = Rotations

\* ---------------------------------------------------------------- C13
\* C13: rotation does not invalidate outstanding handles.  A commit on a
\* handle a get_pool call returned succeeds, also after a rotation replaced
\* the pool, and goes to the partition file of that handle; and a handle
\* returned by a call that began after a rotation is not the replaced pool.
C13_OutstandingHandlesStayUsable ==
    \A c \in Callers :
        wrote[c].done =>
            /\ wrote[c].ok
            /\ wrote[c].file = ret[c].pool.file
            /\ ret[c].pool.id >= startSerial[c]

\* A caller committed on its handle after a rotation had replaced the pool,
\* and the rows went to the old partition.
C13_Witness ==
    \E c \in Callers :
        /\ wrote[c].done /\ wrote[c].stale /\ wrote[c].ok
        /\ ret[c].pool.id < inner.pool.id
        /\ wrote[c].file # inner.pool.file

\* ---------------------------------------------------------------- C14
\* C14: the archival worker a rotation requested archives the partition that
\* rotation retired: the file name its run passes to the archival command is
\* the one of the key that was stored immediately before the rotation,
\* however long the rotation came after the last call of the old week and
\* however long the worker ran after the rotation.
C14_ArchivesRetiredPartition ==
    \A id \in Ids :
        archived[id] # NoFile => Packed(archived[id]) = retired[id]

\* ---------------------------------------------------------------- C15
\* C15: the symbol cache is cleared whenever a rotation is observed: every
\* id get_symbol_id returns for a ticker is the id of that ticker's row in the
\* symbols table of the partition whose pool the call obtained, never an id
\* cached from a previous partition.
C15_IdIsOfCurrentPartition ==
    \A c \in Callers :
        sym[c].ph = "got" =>
            /\ sym[c].id # 0
            /\ symbols[symFile(c)][sym[c].ticker] = sym[c].id

\* ---------------------------------------------------------------- C16
\* C16: within one partition a ticker maps to exactly one id, also when
\* several tasks resolve the same unknown ticker concurrently: one of them
\* inserts the row and every resolver ends up with that same id (none ends
\* without an id).
C16_OneIdPerTicker ==
    \A c \in Callers :
        /\ sym[c].ph # "failed"
        /\ \A d \in Callers :
              (/\ sym[c].ph = "got" /\ sym[d].ph = "got"
               /\ sym[c].ticker = sym[d].ticker
               /\ symFile(c) = symFile(d))
              => sym[c].id = sym[d].id

\* A step in which a flush of db_writer comes to its end.
FlushEnded == wpc \in {"get", "backoff", "insert"} /\ wpc' \in {"select", "stopped"}

\* C17: a batch is committed in one transaction and never retried: when a
\* flush ends, either every row of the batch is persisted or none is, the
\* buffer is empty in both cases, and no row of a failed batch is ever
\* persisted, by that flush or a later one.
C17_BatchAllOrNothing ==
    [][/\ FlushEnded =>
            /\ Range(buffer) \subseteq persisted' \/ Range(buffer) \cap persisted' = {}
            /\ buffer' = <<>>
       /\ failedRows' \cap persisted' = {}]_vars

\* A batch of two rows failed, and a later flush committed another batch.
C17_Witness ==
    /\ Cardinality(failedRows) >= 2
    /\ \E e \in persisted : \A f \in failedRows : e > f
    /\ buffer = <<>>

\* C18: a failure to obtain the pool handle during a flush never drops the
\* batch: the writer, whichever it is, keeps the batch and backs off to retry.
C18_GetFailureKeepsBatch ==
    [][GetErr => wpc' = "backoff" /\ buffer' = buffer /\ failedRows' = failedRows]_vars

C20_LagDoesNotTerminate ==
    [][RunLagged =>
         /\ channel' = channel
         /\ run'[WriterId] = "running"
         /\ hb'[WriterId] = "running"
         /\ cursor'[1] = Oldest(sent')
         /\ cursor'[1] <= sent']_vars

\* The writer lagged, went on, and a row it received after the gap is
\* persisted; its run and emitter are still running.
C20_Witness ==
    /\ missed[1] # {}
    /\ \E e \in persisted : \A m \in missed[1] : e > m
    /\ run[WriterId] = "running"
    /\ hb[WriterId] = "running"

\* C21: a worker that finds its db queue full when it forwards an event
\* escalates and exits: the event it holds for the full queue leaves its hand
\* only with run leaving its loop (to report the Error), never by run going on.
C21_OverflowEscalates ==
    [][inHand # 0 /\ inHand' = 0 => run'[WriterId] # "running"]_vars

\* C22: only Klines with closed = true are persisted: no Kline received with
\* closed = false is ever in the writer's buffer, in its open transaction or
\* among the committed rows.
C22_OnlyClosedKlinesPersisted ==
    /\ Range(buffer) \cap unclosed = {}
    /\ Range(tx) \cap unclosed = {}
    /\ persisted \cap unclosed = {}

\* db_writer took an unclosed Kline off its queue, and a Kline received after
\* it is committed.
C22_Witness ==
    \E e \in unclosed :
        /\ e \notin Range(db_rx) /\ e # inHand /\ e # handling
        /\ \E r \in persisted : r > e

\* C23 as stated: while db_writer handles a Kline received with closed =
\* false, the persisted rows do not change.
C23_UnclosedLeavesCountUnchanged ==
    [][(handling \in unclosed) => persisted' = persisted]_vars

\* C23 as amended: the handling of a Kline received with closed = false adds
\* no row for that Kline; all it can commit are the closed rows buffered before
\* it (the flush that is due by time is evaluated when any Kline arrives).
C23_UnclosedAddsNoRowOfItsOwn ==
    [][(handling \in unclosed) =>
         /\ handling \notin persisted'
         /\ persisted' \ persisted \subseteq Range(buffer) \ unclosed]_vars

\* The handling of an unclosed Kline flushed the closed row buffered before it.
C23_Witness ==
    /\ handling \in unclosed
    /\ wpc = "insert"
    /\ tx # <<>>
    /\ \A r \in Range(tx) : r < handling

\* C24: there is one supervised writer per event variant: once main has made
\* all its registrations, every variant the gateway publishes has a writer
\* registered with the Supervisor whose run loop takes that variant.
C24_OneWriterPerVariant ==
    actor_factories = MainRegisters =>
        \A v \in Variants : \E kind \in actor_factories : Consumes(kind) = v

\* C25: an undecodable frame (invalid JSON, a payload that does not match its
\* stream tag, an unknown stream tag) publishes no event, produces exactly one
\* Error for the gateway's id, and leaves the connection open: reading it
\* publishes nothing, nothing but its report ends its handling, the report
\* appends one Error(gateway id), and the read loop is back at the next frame.
C25_UndecodableFrameReported ==
    [][/\ (conn = "open" /\ conn' = "reporting" /\ frame' \in Undecodable) =>
              sent' = sent /\ channel' = channel
       /\ (conn = "reporting" /\ frame \in Undecodable /\ conn' # conn) =>
              /\ channel' = Append(channel, Msg("Error", GatewayId))
              /\ sent' = sent
              /\ conn' = "open"
              /\ run'[GatewayId] = "running"
       /\ (conn = "reporting" /\ frame \in Undecodable /\ conn' = conn) =>
              \/ Len(channel') <= Len(channel)
              \/ channel'[Len(channel')].type # "Error"]_vars

\* An event was published, then an undecodable frame was reported (its Error
\* is the last message queued), and the connection is open again.
C25_Witness ==
    /\ frame \in Undecodable
    /\ conn = "open"
    /\ channel # <<>> /\ channel[Len(channel)] = Msg("Error", GatewayId)
    /\ sent > 0

\* C26: a severed connection (read error or close frame) and a failed
\* connection attempt are handled alike: an Error is sent to the Supervisor
\* and the next attempt is made after the 2 s sleep.  So a connection attempt
\* is only ever entered from that sleep, and the sleep only after the Error.
C26_ReconnectAfterErrorAndSleep ==
    [][/\ (conn # "connecting" /\ conn' = "connecting") => conn = "sleeping"
       /\ (conn # "sleeping" /\ conn' = "sleeping") =>
              channel' = Append(channel, Msg("Error", GatewayId))]_vars

\* An archival worker whose task the Supervisor has dropped: its id was given
\* out and its kind is gone with the task.
Forgotten(id) == id < nextId /\ kindOf[id] = "none" /\ id \notin Tables

\* C27: an archival worker runs the command once; on exit 0 its run queues
\* Shutdown(its id) and returns; on a failure its run returns an error and
\* queues nothing; the run never starts again, and once the Supervisor has
\* dropped the worker it holds no entry for that id any more.
C27_OneShotRunsOnceAndIsForgotten ==
    [][\A id \in Ids :
        /\ (run[id] = "running" /\ run'[id] = "ok")
              => channel' = Append(channel, Msg("Shutdown", id))
        /\ (run[id] = "running" /\ run'[id] = "err") => channel' = channel
        /\ (run[id] \in {"ok", "err"}) => run'[id] # "running"
        /\ Forgotten(id) => id \notin Tables']_vars

\* An ISO year has 53 weeks when 1 January is a Thursday, or a Wednesday in a
\* leap year; 52 otherwise.
WeeksInIsoYear(y) ==
    IF Weekday(Jan1(y)) = 3 \/ (IsLeap(y) /\ Weekday(Jan1(y)) = 2) THEN 53 ELSE 52

\* The ISO week before the week yw.
WeekBefore(yw) ==
    IF yw[2] > 1 THEN <<yw[1], yw[2] - 1>> ELSE <<yw[1] - 1, WeeksInIsoYear(yw[1] - 1)>>

Constructs(c) == pc[c] = "open" /\ pc'[c] = "install"

\* The step in which caller c installs the pool it constructed.
Installs(c) == pc[c] = "install" /\ pc'[c] = "spawn"

\* The step in which caller c, having found the key stale on the fast path,
\* returns from the slow path.
ReturnsSlow(c) == pc[c] = "write_ret" /\ Returns(c)

\* C29: of the calls that find the key stale after a week crossing, one
\* constructs and installs a pool: a pool is constructed only under the
\* exclusive lock while the stored key is still stale, so that no second
\* caller constructs one for a week whose pool is installed; the installed
\* pool is a new handle; every call that returns, on either path, returns
\* the installed pool, and a call that went through the slow path returns a
\* handle that differs from the one installed when it began.
C29_OneRotationPerCrossing ==
    [][\A c \in Callers :
        /\ Constructs(c) =>
              /\ writer = c
              /\ inner.key # current_packed(clock)
              /\ \A d \in Callers \ {c} : newPool[d] = NoPool \/ pc[d] \in {"done", "idle"}
        /\ Installs(c) =>
              /\ inner'.pool = newPool[c]
              /\ inner'.pool.id # inner.pool.id
              /\ inner'.key # inner.key
              /\ inner'.key = current_packed(clock)
        /\ Returns(c) => ret'[c].pool = inner.pool
        /\ ReturnsSlow(c) => ret'[c].pool.id # startSerial[c]]_vars

\* Two calls found the key stale after the crossing and went through the
\* slow path; one of them installed the new pool and both returned it.
C29_Witness ==
    \E c, d \in Callers :
        /\ c # d
        /\ pc[c] = "done" /\ ret[c].ok /\ ret[c].rotated /\ newPool[c] # NoPool
        /\ pc[d] = "done" /\ ret[d].ok /\ ret[d].rotated /\ newPool[d] = NoPool
        /\ ret[c].pool = newPool[c]
        /\ ret[d].pool = newPool[c]
        /\ inner.pool = newPool[c]
        /\ startSerial[c] = startSerial[d]
        /\ startSerial[c] # inner.pool.id

\* ---------------------------------------------------------------- C30
\* C30: whichever the writer, whenever db_writer waits in its select! with a
\* non-empty buffer, the idle timer can fire and start the flush of the buffer
\* without any further event: the flush does not depend on the queue.
C30_IdleTimerFlushes ==
    (wpc = "select" /\ buffer # <<>>) => ENABLED DbTimer

\* ---------------------------------------------------------------- C31
\* The step in which run, having met the closed bus, queues its Error and
\* returns.
ReportsClosure == ~bus_open /\ run[WriterId] = "reporting" /\ run'[WriterId] = "err"

\* C31: on closure of the bus the writer drains its queue and flushes the
\* remaining buffer first, and only then reports the Error and returns from
\* run: at the step that reports, the queue and the buffer are empty and no
\* flush is under way.
C31_DrainBeforeError ==
    [][ReportsClosure =>
          /\ db_rx = <<>>
          /\ buffer = <<>>
          /\ wpc \in {"select", "stopped"}]_vars

\* ---------------------------------------------------------------- C32
\* The step in which one of the drivers of gateway id completes.
DriverEnds(id) == kindOf[id] = "GatewayActor" /\ run[id] = "running" /\ run'[id] = "ok"

\* The gateways whose run has returned and whose pulse has timed out.
EndedGateways == {id \in dead_actors \cap IdsOfKind("GatewayActor") : run[id] = "ok"}

\* C32: when one of the gateway's drivers terminates, run returns (the other
\* drivers go with its future) and the heartbeat emitter is aborted; at the
\* liveness tick that finds the pulse of that gateway timed out, the
\* Supervisor removes it and starts a new instance of the Gateway kind.
C32_DriverEndRestartsGateway ==
    [][ /\ \A id \in Ids : DriverEnds(id) => hb'[id] = "aborted"
        /\ Tick => \A id \in EndedGateways :
                      /\ id \notin Tables'
                      /\ \E n \in DOMAIN actor_types' \ Tables :
                            /\ actor_types'[n] = "GatewayActor"
                            /\ Running(n)']_vars

\* ---------------------------------------------------------------- C33
\* The step in which the response to a make_request is handled.
Responds == poller.pc = "request" /\ poller'.pc # "request"

\* The step in which fetch_single_open_interest returns an error.
FetchFails ==
    /\ Responds
    /\ poller'.pc # "backoff"
    /\ (poller'.results = poller.results
          \/ poller'.results[Len(poller'.results)] = "Err")

\* C33: for one open-interest request every rate-limit response (429 or 418)
\* is followed by a back-off of 2^n seconds before retry n, n = 1, 2, 3
\* (2, 4, 8 s); at most 3 retries are made, and the request fails when the
\* third retry is rate-limited too; any other failure is not retried.
C33_BackoffDoublesThreeRetries ==
    [][ /\ poller'.slept \in {<<>>, <<2>>, <<2, 4>>, <<2, 4, 8>>}
        /\ (Responds /\ poller'.last \in RateLimited) =>
              IF Len(poller.slept) < 3
              THEN /\ poller'.pc = "backoff"
                   /\ poller'.backoff_seconds = 2 ^ (Len(poller.slept) + 1)
              ELSE FetchFails
        /\ (Responds /\ poller'.last \notin RateLimited \cup {"ok"}) => FetchFails
        /\ (poller.pc = "backoff" /\ poller'.pc # "backoff") =>
              /\ poller'.pc = "request"
              /\ poller'.slept = Append(poller.slept, poller.backoff_seconds)]_vars

\* The third retry of a request was rate-limited after back-offs of 2, 4 and
\* 8 seconds, and the request failed.
C33_Witness ==
    /\ poller.last \in RateLimited
    /\ poller.pc = "delay"
    /\ poller.i = 2
    /\ poller.results = <<"Err">>

\* ---------------------------------------------------------------- C34
\* The step in which a request is answered with a rate-limit response after
\* its retries are used up.
RetriesExhausted ==
    Responds /\ poller'.last \in RateLimited /\ poller.retry_count = max_retries

\* C34: when a request is still rate-limited after its retries are
\* exhausted, the polling pass is abandoned: the pass ends at that step, and
\* no request is made for a remaining symbol of the pass.
C34_ExhaustedAbandonsPass ==
    [][RetriesExhausted => poller'.pc = "idle" /\ poller'.results = poller.results]_vars

\* ---------------------------------------------------------------- C35
\* The step in which oi_connection starts a pass after an earlier one.
StartsNextPass == poller.pc = "idle" /\ poller'.pc = "request" /\ poller.passes > 0

\* C35: between the end of a polling pass, completed or abandoned, and the
\* first request of the next pass the poller pauses: a sleep has ended since
\* the last response of the earlier pass.
C35_PauseBetweenPasses ==
    [][StartsNextPass => poller.paused]_vars

\* ---------------------------------------------------------------- C36
\* C36: the key stored in the RotatingPool always names the ISO week of the
\* partition file the stored pool was opened on, and a call never returns a
\* pool whose file is of another week than the key it was served under.
C36_KeyNamesStoredFile ==
    /\ inner.key = Packed(inner.pool.file)
    /\ \A c \in Callers :
          (pc[c] = "done" /\ ret[c].ok) => seenKey[c] = Packed(ret[c].pool.file)

\* ------------------------------------------------- ForceOrderRepository
\* insert_batch as the task running it steps through it: get_pool and
\* pool.begin() once, then for every order get_symbol_id (which calls
\* get_pool again and resolves the ticker through the SymbolManager on the
\* pool that call returns) and an INSERT on the batch's transaction, then
\* tx.commit().

\* The task running insert_batch.
BatchCaller == 1

\* The holder of a file's write lock when it is the batch's transaction.
BatchTx == MaxCallers + 1

BatchRest == <<supVars, run, hb, beat, archived, pipeVars, gwVars, calVars, oiVars>>

\* The caller's locals of one get_pool / get_or_create_id call go out of scope.
CallEnds(c) ==
    /\ pc' = [pc EXCEPT ![c] = "idle"]
    /\ seenKey' = [seenKey EXCEPT ![c] = 0]
    /\ newPool' = [newPool EXCEPT ![c] = NoPool]
    /\ ret' = [ret EXCEPT ![c] = NoRet]
    /\ wrote' = [wrote EXCEPT ![c] = NoWrite]
    /\ sym' = [sym EXCEPT ![c] = NoSym]

\* let (pool, _) = self.data_manager.pool_rotator.get_pool().await?  (entry)
BatchGetPool(c) ==
    /\ batch.ph \in {"none", "committed", "failed"}
    /\ Call(c)

\* let mut tx = pool.begin().await?: the handle that call returned is the
\* batch's pool for the whole batch; a deferred transaction holds no lock yet.
BatchBegin(c) ==
    /\ batch.ph \in {"none", "committed", "failed"}
    /\ pc[c] = "done"
    /\ ret[c].ok
    /\ sym[c].ph = "none"
    /\ batch' = [ph |-> "resolve", pool |-> ret[c].pool, rows |-> <<>>]
    /\ CallEnds(c)
    /\ UNCHANGED <<clock, inner, readers, writer, poolCount, startSerial, retiring,
                   retired, closed, cache, symbols, wlock, channel, nextId, kindOf,
                   BatchRest>>

\* ... get_pool returned Err: `?` returns it before any transaction is begun.
BatchGetPoolFails(c) ==
    /\ batch.ph \in {"none", "committed", "failed"}
    /\ ~ret[c].ok
    /\ Return(c)

\* DataManager::get_symbol_id: self.pool_rotator.get_pool().await? (entry)
get_symbol_id(c) ==
    /\ batch.ph = "resolve"
    /\ Call(c)

\* ... self.symbol_manager.get_or_create_id(pool.clone(), ticker) (entry)
BatchResolve(c, t) ==
    /\ batch.ph = "resolve"
    /\ CacheLookup(c, t)

\* get_symbol_id returned Ok(id): INSERT INTO force_orders ... execute(&mut *tx)
\* writes the row with that id through the batch's transaction, which takes
\* the write lock of the batch's file with its first write; after the last
\* order the loop ends.
BatchInsertRow(c) ==
    /\ batch.ph = "resolve"
    /\ pc[c] = "done"
    /\ ret[c].ok
    /\ sym[c].ph = "got"
    /\ wlock[batch.pool.file] \in {0, BatchTx}
    /\ wlock' = [wlock EXCEPT ![batch.pool.file] = BatchTx]
    /\ batch' = [batch EXCEPT
                    !.rows = Append(@, [ticker |-> sym[c].ticker, id |-> sym[c].id]),
                    !.ph = IF Len(batch.rows) + 1 = BatchSize THEN "commit" ELSE "resolve"]
    /\ closed' = Dropped(ret[c].pool.id,
                         HeldBy(Holders \ {c}) \cup {inner.pool.id})
    /\ CallEnds(c)
    /\ UNCHANGED <<clock, inner, readers, writer, poolCount, startSerial, retiring,
                   retired, cache, symbols, channel, nextId, kindOf, BatchRest>>

\* get_symbol_id returned Err (get_pool or the SymbolManager failed): `?`
\* returns it, the transaction is dropped and rolls back, the batch's
\* handle is dropped.
BatchResolveFails(c) ==
    /\ batch.ph = "resolve"
    /\ pc[c] = "done"
    /\ ~ret[c].ok \/ sym[c].ph = "failed"
    /\ wlock' = [f \in Files |-> IF wlock[f] = BatchTx THEN 0 ELSE wlock[f]]
    /\ batch' = [batch EXCEPT !.ph = "failed", !.rows = <<>>]
    /\ closed' = closed \cup
                   (({batch.pool.id} \cup (IF ret[c].ok THEN {ret[c].pool.id} ELSE {}))
                    \ ({ret[d].pool.id : d \in Holders \ {c}} \cup {inner.pool.id}))
    /\ CallEnds(c)
    /\ UNCHANGED <<clock, inner, readers, writer, poolCount, startSerial, retiring,
                   retired, cache, symbols, channel, nextId, kindOf, BatchRest>>

\* tx.commit().await?: the rows are durable, the write lock is released
\* and the batch's handle is dropped.
BatchCommit(c) ==
    /\ batch.ph = "commit"
    /\ pc[c] = "idle"
    /\ wlock' = [f \in Files |-> IF wlock[f] = BatchTx THEN 0 ELSE wlock[f]]
    /\ batch' = [batch EXCEPT !.ph = "committed"]
    /\ closed' = closed \cup
                   ({batch.pool.id}
                    \ ({ret[d].pool.id : d \in Holders} \cup {inner.pool.id}))
    /\ UNCHANGED <<clock, inner, readers, writer, pc, seenKey, newPool, ret, wrote,
                   sym, poolCount, startSerial, retiring, retired, cache, symbols,
                   channel, nextId, kindOf, BatchRest>>

NextBatch ==
    \/ ClockAdvance
    \/ BatchGetPool(BatchCaller)
    \/ get_symbol_id(BatchCaller)
    \/ ReadLock(BatchCaller)
    \/ ReadKey(BatchCaller)
    \/ ReadClone(BatchCaller)
    \/ WriteLock(BatchCaller)
    \/ WriteCheck(BatchCaller)
    \/ get_weekly_pool(BatchCaller)
    \/ get_weekly_pool_fails(BatchCaller)
    \/ Install(BatchCaller)
    \/ RequestBackup(BatchCaller)
    \/ WriteReturn(BatchCaller)
    \/ BatchGetPoolFails(BatchCaller)
    \/ BatchBegin(BatchCaller)
    \/ \E t \in Tickers : BatchResolve(BatchCaller, t)
    \/ SelectId(BatchCaller)
    \/ InsertId(BatchCaller)
    \/ InsertBusy(BatchCaller)
    \/ CommitTx(BatchCaller)
    \/ CacheInsert(BatchCaller)
    \/ BatchInsertRow(BatchCaller)
    \/ BatchResolveFails(BatchCaller)
    \/ BatchCommit(BatchCaller)

SpecBatch == InitPool /\ [][NextBatch]_vars

\* The nested resolution of the batch's task has reached its INSERT INTO
\* symbols on the file whose write lock the batch's own transaction holds.
WaitsOnItself ==
    /\ batch.ph = "resolve"
    /\ batch.rows # <<>>
    /\ sym[BatchCaller].ph = "insert"
    /\ wlock[symFile(BatchCaller)] = BatchTx

\* C37: every row the batch's transaction has written carries the id that
\* the symbols table of the batch's own partition holds for the row's
\* ticker, also when the pool rotated between the batch's get_pool and the
\* row's get_symbol_id.
C37_RowIdFromOwnPartition ==
    \A i \in 1..Len(batch.rows) :
        symbols[batch.pool.file][batch.rows[i].ticker] = batch.rows[i].id

\* C38: a batch never waits on itself: while its transaction has written a
\* row, the resolution of an uncached, absent ticker never needs the write
\* lock that this transaction holds.
C38_BatchNeverWaitsOnItself == ~WaitsOnItself

\* ---------------------------------------------------------------- C39
\* run is over: the Supervisor aborted its task, or it returned.
RunEnded == run[WriterId] \notin {"running", "reporting"}

\* db_writer has left its loop.
DrainStopped == wpc = "stopped"

\* Nothing forwarded was left behind: the queue and the buffer are empty and
\* every row taken off the queue went through a flush.
NothingLeft == db_rx = <<>> /\ buffer = <<>> /\ tx = <<>>

ConstructionFails(c) == pc[c] = "open" /\ pc'[c] = "done"

\* C40: when constructing the new pool fails during a rotation, the call
\* returns the error, the stored (key, pool) pair is unchanged, no archival
\* request is sent, and the stored key is still not the current week's, so
\* that a later call in the same week takes the rotation path again.
C40_FailedRotationLeavesPair ==
    [][\A c \in Callers : ConstructionFails(c) =>
          /\ ~ret'[c].ok
          /\ inner' = inner
          /\ channel' = channel /\ nextId' = nextId /\ kindOf' = kindOf
          /\ retired' = retired /\ retiring' = retiring
          /\ inner'.key # current_packed(clock')
          /\ writer' = 0]_vars

\* In the week after the stored one a rotation failed for one caller, and
\* another caller has since constructed the new pool and is about to store it.
C40_Witness ==
    /\ clock = 1
    /\ \E c, d \in Callers :
         /\ pc[c] = "done" /\ ~ret[c].ok
         /\ pc[d] = "install"

====
